---- MODULE Spec2Model ----
(***************************************************************************)
(* Form-data persistence layer of the social-work intake questionnaire:    *)
(* the sanitizer, the JSON text stored in SLSP_DEMO.DATA, the retrying     *)
(* store operations of SnowflakeManager and auto_save_data of app_ws.py.   *)
(*                                                                         *)
(* A Python str is a sequence of characters; a character is a TLA+ string  *)
(* (printable ASCII as itself, the others under a name).  A Python value   *)
(* is a tagged record [t |-> tag, v |-> payload].                          *)
(***************************************************************************)
EXTENDS Integers, Sequences, FiniteSets, TLC

VARIABLES
    san_in, san_out, san_out2, san_pc,  \* the sanitizer applied to one record
    table,      \* the rows of SLSP_DEMO, in insertion order
    now,        \* CURRENT_TIMESTAMP() of the last write
    ws,         \* per UI session: its SnowflakeManager and the operation it runs
    budget,     \* operations that may still be started
    faults,     \* failures the environment may still produce, Unlimited for any number
    ui,         \* per UI session: the lookup state main() keeps in st.session_state
    session_state,  \* the table sections main() keeps in st.session_state
    clock,      \* int(time.time() * 1000) at its last reading
    shown,      \* what the last script run showed: a message, an open dialog
    generated,  \* per section: the IDs generated in this browser session, in order
    conn,       \* a SnowflakeManager: its session, last_activity and its running operation
    live,       \* the sessions of that manager that are open at the server
    wall        \* time.time(), in units of ten minutes

sanVars == <<san_in, san_out, san_out2, san_pc>>
storeVars == <<table, now, ws, budget, faults>>
formVars == <<ui>>
tableVars == <<session_state, clock, shown, generated>>
connVars == <<conn, live, wall>>
vars == <<san_in, san_out, san_out2, san_pc, table, now, ws, budget, faults, ui,
          session_state, clock, shown, generated, conn, live, wall>>

----------------------------------------------------------------------------
(* Characters *)

SP == " "
LF == "LF"
CR == "CR"
TAB == "TAB"
VT == "VT"
NUL == "NUL"
DEL == "DEL"
NBSP == "NBSP"
DQ == "\""
SQ == "'"
LDQ == "LDQ"
RDQ == "RDQ"
LSQ == "LSQ"
RSQ == "RSQ"
BSL == "\\"

\* the character class of re.sub(r'[\x00-\x08\x0B\x0C\x0E-\x1F\x7F]', ...)
ControlClass == {NUL, VT, DEL}

\* the characters str.strip() removes: str.isspace() is true of them
Whitespace == {SP, LF, CR, TAB, VT, NBSP}

\* the characters the specification wants absent from a sanitized string
C0AndDel == {NUL, VT, DEL, LF, CR, TAB}
QuoteChars == {DQ, SQ, LDQ, RDQ, LSQ, RSQ}

----------------------------------------------------------------------------
(* Python values *)

Str(s) == [t |-> "str", v |-> s]
Num(n) == [t |-> "num", v |-> n]
Bool(b) == [t |-> "bool", v |-> b]
Null == [t |-> "null", v |-> 0]
Date(s) == [t |-> "date", v |-> s]
List(l) == [t |-> "list", v |-> l]
Dict(items) == [t |-> "dict", v |-> items]

----------------------------------------------------------------------------
(* str methods and re.sub *)

RECURSIVE replace(_, _, _)
\* str.replace(old, new): leftmost non-overlapping occurrences, old non-empty
replace(s, old, new) ==
    IF Len(s) < Len(old) THEN s
    ELSE IF SubSeq(s, 1, Len(old)) = old
         THEN new \o replace(SubSeq(s, Len(old) + 1, Len(s)), old, new)
         ELSE <<Head(s)>> \o replace(Tail(s), old, new)

\* re.sub(r'[\x00-\x08\x0B\x0C\x0E-\x1F\x7F]', ' ', s)
sub_control(s) == [i \in 1..Len(s) |-> IF s[i] \in ControlClass THEN SP ELSE s[i]]

RECURSIVE sub_spaces(_)
\* re.sub(r' +', ' ', s)
sub_spaces(s) ==
    IF s = <<>> THEN <<>>
    ELSE IF Head(s) = SP /\ Len(s) > 1 /\ s[2] = SP THEN sub_spaces(Tail(s))
         ELSE <<Head(s)>> \o sub_spaces(Tail(s))

RECURSIVE lstrip(_)
lstrip(s) == IF s # <<>> /\ Head(s) \in Whitespace THEN lstrip(Tail(s)) ELSE s

RECURSIVE rstrip(_)
rstrip(s) ==
    IF s # <<>> /\ s[Len(s)] \in Whitespace THEN rstrip(SubSeq(s, 1, Len(s) - 1)) ELSE s

\* str.strip()
strip(s) == rstrip(lstrip(s))

\* the argument ''', '').replace(''' of line 210: a triple-quoted literal
TripleQuoted == <<",", SP, SQ, SQ, ")", ".", "r", "e", "p", "l", "a", "c", "e", "(">>

----------------------------------------------------------------------------
(* SnowflakeManager.sanitize_form_data *)

\* Step 1: newlines, tabs and carriage returns become spaces
step1(s) == replace(replace(replace(s, <<LF>>, <<SP>>), <<CR>>, <<SP>>), <<TAB>>, <<SP>>)

\* Step 4, first statement: the ASCII double quote, three times
step4_double(s) == replace(replace(replace(s, <<DQ>>, <<>>), <<DQ>>, <<>>), <<DQ>>, <<>>)

\* Step 4, second statement: replace(''', '').replace(''', '')
step4_single(s) == replace(s, TripleQuoted, <<>>)

\* the string branch of the loop over form_data.items()
sanitized_value(value) == step4_single(step4_double(strip(sub_spaces(sub_control(step1(value))))))

\* the string branch of the loop over the items of a list
item_clean(item) == step4_single(step4_double(strip(sub_spaces(sub_control(step1(item))))))

\* a sanitizer that keeps strings only: every other value of the record and
\* every other item of a list becomes None
sanitize_form_data_strings(form_data) ==
    Dict([i \in 1..Len(form_data.v) |->
        LET key == form_data.v[i][1]
            value == form_data.v[i][2]
        IN  <<key,
              IF value.t = "str" THEN Str(sanitized_value(value.v))
              ELSE IF value.t = "list"
                   THEN List([j \in 1..Len(value.v) |->
                            LET item == value.v[j]
                            IN  IF item.t = "str" THEN Str(item_clean(item.v)) ELSE Null])
                   ELSE Null>>])

RECURSIVE sanitize_form_data(_)
sanitize_form_data(form_data) ==
    Dict([i \in 1..Len(form_data.v) |->
        LET key == form_data.v[i][1]
            value == form_data.v[i][2]
        IN  <<key,
              IF value.t = "str" THEN Str(sanitized_value(value.v))
              ELSE IF value.t = "list"
                   THEN List([j \in 1..Len(value.v) |->
                            LET item == value.v[j]
                            IN  IF item.t = "dict" THEN sanitize_form_data(item)
                                ELSE IF item.t = "str" THEN Str(item_clean(item.v))
                                ELSE item])
                   ELSE value>>])

----------------------------------------------------------------------------
(* json.dumps(obj, default=str, ensure_ascii=False) *)

DigitChars == <<"0", "1", "2", "3", "4", "5", "6", "7", "8", "9">>

RECURSIVE int_text(_)
\* the decimal text of a non-negative int
int_text(n) == IF n < 10 THEN <<DigitChars[n + 1]>> ELSE int_text(n \div 10) \o <<DigitChars[(n % 10) + 1]>>

\* the encoder's escape table (ESCAPE_DCT of json.encoder)
escape_char(c) ==
    CASE c = DQ -> <<BSL, DQ>>
      [] c = BSL -> <<BSL, BSL>>
      [] c = LF -> <<BSL, "n">>
      [] c = CR -> <<BSL, "r">>
      [] c = TAB -> <<BSL, "t">>
      [] c = NUL -> <<BSL, "u", "0", "0", "0", "0">>
      [] c = VT -> <<BSL, "u", "0", "0", "0", "b">>
      [] OTHER -> <<c>>

RECURSIVE escape_body(_)
escape_body(s) == IF s = <<>> THEN <<>> ELSE escape_char(Head(s)) \o escape_body(Tail(s))

encode_string(s) == <<DQ>> \o escape_body(s) \o <<DQ>>

RECURSIVE json_dumps(_)
RECURSIVE dumps_items(_, _)
\* the members of a list (isDict = FALSE) or of a dict, joined by ", "
dumps_items(items, isDict) ==
    IF items = <<>> THEN <<>>
    ELSE LET first == IF isDict
                      THEN encode_string(Head(items)[1]) \o <<":", SP>> \o json_dumps(Head(items)[2])
                      ELSE json_dumps(Head(items))
         IN  IF Len(items) = 1 THEN first
             ELSE first \o <<",", SP>> \o dumps_items(Tail(items), isDict)

json_dumps(obj) ==
    CASE obj.t = "str" -> encode_string(obj.v)
      [] obj.t = "num" -> int_text(obj.v)
      [] obj.t = "bool" -> IF obj.v THEN <<"t", "r", "u", "e">> ELSE <<"f", "a", "l", "s", "e">>
      [] obj.t = "null" -> <<"n", "u", "l", "l">>
      [] obj.t = "date" -> encode_string(obj.v)
      [] obj.t = "list" -> <<"[">> \o dumps_items(obj.v, FALSE) \o <<"]">>
      [] obj.t = "dict" -> <<"{">> \o dumps_items(obj.v, TRUE) \o <<"}">>

----------------------------------------------------------------------------
(* json.loads(s): [ok |-> parsed, val |-> the value]; not ok is JSONDecodeError *)

ParseFail == [ok |-> FALSE, val |-> Null, pos |-> 0]
Parsed(val, pos) == [ok |-> TRUE, val |-> val, pos |-> pos]

JsonWhitespace == {SP, TAB, LF, CR}

\* characters below 0x20, which a strict decoder rejects inside a string
BelowSpace == {NUL, VT, LF, CR, TAB}

HexChars == {"0", "1", "2", "3", "4", "5", "6", "7", "8", "9",
             "a", "b", "c", "d", "e", "f", "A", "B", "C", "D", "E", "F"}

\* the character of a \uXXXX escape
code_point(h) ==
    CASE h = <<"0", "0", "0", "0">> -> NUL
      [] h = <<"0", "0", "0", "b">> -> VT
      [] h = <<"0", "0", "0", "a">> -> LF
      [] h = <<"0", "0", "0", "d">> -> CR
      [] h = <<"0", "0", "0", "9">> -> TAB
      [] h = <<"0", "0", "2", "0">> -> SP
      [] h = <<"0", "0", "2", "2">> -> DQ
      [] h = <<"0", "0", "2", "7">> -> SQ
      [] h = <<"0", "0", "5", "c">> -> BSL
      [] h = <<"0", "0", "7", "f">> -> DEL
      [] OTHER -> "U+" \o h[1] \o h[2] \o h[3] \o h[4]

RECURSIVE skip_ws(_, _)
skip_ws(s, i) == IF i <= Len(s) /\ s[i] \in JsonWhitespace THEN skip_ws(s, i + 1) ELSE i

RECURSIVE scan_string(_, _, _)
\* the body of a string from position i, the opening quote consumed
scan_string(s, i, acc) ==
    IF i > Len(s) THEN ParseFail
    ELSE IF s[i] = DQ THEN Parsed(acc, i + 1)
    ELSE IF s[i] \in BelowSpace THEN ParseFail
    ELSE IF s[i] # BSL THEN scan_string(s, i + 1, Append(acc, s[i]))
    ELSE IF i + 1 > Len(s) THEN ParseFail
    ELSE LET esc == s[i + 1]
         IN  CASE esc = DQ -> scan_string(s, i + 2, Append(acc, DQ))
               [] esc = BSL -> scan_string(s, i + 2, Append(acc, BSL))
               [] esc = "/" -> scan_string(s, i + 2, Append(acc, "/"))
               [] esc = "b" -> scan_string(s, i + 2, Append(acc, "BS"))
               [] esc = "f" -> scan_string(s, i + 2, Append(acc, "FF"))
               [] esc = "n" -> scan_string(s, i + 2, Append(acc, LF))
               [] esc = "r" -> scan_string(s, i + 2, Append(acc, CR))
               [] esc = "t" -> scan_string(s, i + 2, Append(acc, TAB))
               [] esc = "u" ->
                    IF i + 5 <= Len(s) /\ \A j \in (i + 2)..(i + 5) : s[j] \in HexChars
                    THEN scan_string(s, i + 6, Append(acc, code_point(SubSeq(s, i + 2, i + 5))))
                    ELSE ParseFail
               [] OTHER -> ParseFail

RECURSIVE scan_digits(_, _, _)
scan_digits(s, i, n) ==
    IF i <= Len(s) /\ \E d \in 1..10 : DigitChars[d] = s[i]
    THEN scan_digits(s, i + 1, 10 * n + (CHOOSE d \in 0..9 : DigitChars[d + 1] = s[i]))
    ELSE Parsed(Num(n), i)

\* an int without sign: 0, or a digit 1-9 followed by digits
scan_number(s, i) == IF s[i] = "0" THEN Parsed(Num(0), i + 1) ELSE scan_digits(s, i, 0)

RECURSIVE dict_set(_, _, _)
\* d[key] = value on an insertion-ordered dict
dict_set(items, key, value) ==
    IF items = <<>> THEN << <<key, value>> >>
    ELSE IF Head(items)[1] = key THEN << <<key, value>> >> \o Tail(items)
         ELSE <<Head(items)>> \o dict_set(Tail(items), key, value)

Literal(s, i, word) == i + Len(word) - 1 <= Len(s) /\ SubSeq(s, i, i + Len(word) - 1) = word

RECURSIVE scan_once(_, _)
RECURSIVE scan_array(_, _, _)
RECURSIVE scan_object(_, _, _)

\* the members of an array from position i, which starts a value
scan_array(s, i, acc) ==
    LET item == scan_once(s, i)
    IN  IF ~item.ok THEN ParseFail
        ELSE LET j == skip_ws(s, item.pos)
             IN  IF j > Len(s) THEN ParseFail
                 ELSE IF s[j] = "]" THEN Parsed(List(Append(acc, item.val)), j + 1)
                 ELSE IF s[j] = "," THEN scan_array(s, skip_ws(s, j + 1), Append(acc, item.val))
                 ELSE ParseFail

\* the members of an object from position i, which must start a key
scan_object(s, i, acc) ==
    IF i > Len(s) \/ s[i] # DQ THEN ParseFail
    ELSE LET key == scan_string(s, i + 1, <<>>)
         IN  IF ~key.ok THEN ParseFail
             ELSE LET c == skip_ws(s, key.pos)
                  IN  IF c > Len(s) \/ s[c] # ":" THEN ParseFail
                      ELSE LET value == scan_once(s, skip_ws(s, c + 1))
                           IN  IF ~value.ok THEN ParseFail
                               ELSE LET j == skip_ws(s, value.pos)
                                        items == dict_set(acc, key.val, value.val)
                                    IN  IF j > Len(s) THEN ParseFail
                                        ELSE IF s[j] = "}" THEN Parsed(Dict(items), j + 1)
                                        ELSE IF s[j] = "," THEN scan_object(s, skip_ws(s, j + 1), items)
                                        ELSE ParseFail

\* one JSON value at position i
scan_once(s, i) ==
    IF i > Len(s) THEN ParseFail
    ELSE IF s[i] = DQ
         THEN LET r == scan_string(s, i + 1, <<>>)
              IN  IF r.ok THEN Parsed(Str(r.val), r.pos) ELSE ParseFail
    ELSE IF s[i] = "{"
         THEN LET j == skip_ws(s, i + 1)
              IN  IF j <= Len(s) /\ s[j] = "}" THEN Parsed(Dict(<<>>), j + 1)
                  ELSE scan_object(s, j, <<>>)
    ELSE IF s[i] = "["
         THEN LET j == skip_ws(s, i + 1)
              IN  IF j <= Len(s) /\ s[j] = "]" THEN Parsed(List(<<>>), j + 1)
                  ELSE scan_array(s, j, <<>>)
    ELSE IF Literal(s, i, <<"n", "u", "l", "l">>) THEN Parsed(Null, i + 4)
    ELSE IF Literal(s, i, <<"t", "r", "u", "e">>) THEN Parsed(Bool(TRUE), i + 4)
    ELSE IF Literal(s, i, <<"f", "a", "l", "s", "e">>) THEN Parsed(Bool(FALSE), i + 5)
    ELSE IF \E d \in 1..10 : DigitChars[d] = s[i] THEN scan_number(s, i)
    ELSE ParseFail

\* json.loads: one value, whitespace around it, nothing after it
json_loads(s) ==
    LET r == scan_once(s, skip_ws(s, 1))
    IN  IF r.ok /\ skip_ws(s, r.pos) > Len(s) THEN [ok |-> TRUE, val |-> r.val]
        ELSE [ok |-> FALSE, val |-> Null]

----------------------------------------------------------------------------
(* SnowflakeManager.clean_json_data_advanced and process_json_data *)

\* a cleaning that leaves the text as it is
clean_json_data_unchanged(raw_data) == raw_data

clean_json_data_advanced(raw_data) ==
    replace(replace(replace(raw_data, <<LF>>, <<BSL, "n">>), <<TAB>>, <<BSL, "t">>), <<CR>>, <<BSL, "r">>)

\* raw_data is a column value: Str(text) or Null.  ok = FALSE is "return None".
process_json_data(raw_data) ==
    IF raw_data.t = "null" \/ raw_data.v = <<>> THEN [ok |-> FALSE, val |-> Null]
    ELSE LET direct == json_loads(raw_data.v)
         IN  IF direct.ok THEN direct
             ELSE json_loads(clean_json_data_advanced(raw_data.v))

----------------------------------------------------------------------------
(* Exception texts *)

SessionUnavailable ==
    <<"U", "n", "a", "b", "l", "e", SP, "t", "o", SP, "e", "s", "t", "a", "b", "l", "i", "s",
      "h", SP, "d", "a", "t", "a", "b", "a", "s", "e", SP, "s", "e", "s", "s", "i", "o", "n">>

ConnectionReset ==
    <<"C", "o", "n", "n", "e", "c", "t", "i", "o", "n", SP, "r", "e", "s", "e", "t", SP, "b",
      "y", SP, "p", "e", "e", "r">>

RequestTimeout ==
    <<"R", "e", "q", "u", "e", "s", "t", SP, "T", "i", "m", "e", "o", "u", "t">>

CompilationError ==
    <<"S", "Q", "L", SP, "c", "o", "m", "p", "i", "l", "a", "t", "i", "o", "n", SP, "e", "r",
      "r", "o", "r">>

\* json.loads(None)
NotStrError ==
    <<"t", "h", "e", SP, "J", "S", "O", "N", SP, "o", "b", "j", "e", "c", "t", SP, "m", "u",
      "s", "t", SP, "b", "e", SP, "s", "t", "r", ",", SP, "b", "y", "t", "e", "s", SP, "o",
      "r", SP, "b", "y", "t", "e", "a", "r", "r", "a", "y", ",", SP, "n", "o", "t", SP, "N",
      "o", "n", "e", "T", "y", "p", "e">>

NoItemsError ==
    <<SP, "o", "b", "j", "e", "c", "t", SP, "h", "a", "s", SP, "n", "o", SP, "a", "t", "t",
      "r", "i", "b", "u", "t", "e", SP, SQ, "i", "t", "e", "m", "s", SQ>>

NoItemAssignment ==
    <<SP, "o", "b", "j", "e", "c", "t", SP, "d", "o", "e", "s", SP, "n", "o", "t", SP, "s",
      "u", "p", "p", "o", "r", "t", SP, "i", "t", "e", "m", SP, "a", "s", "s", "i", "g", "n",
      "m", "e", "n", "t">>

type_name(val) ==
    CASE val.t = "str" -> <<"s", "t", "r">>
      [] val.t = "num" -> <<"i", "n", "t">>
      [] val.t = "bool" -> <<"b", "o", "o", "l">>
      [] val.t = "list" -> <<"l", "i", "s", "t">>
      [] val.t = "null" -> <<"N", "o", "n", "e", "T", "y", "p", "e">>
      [] OTHER -> <<"d", "i", "c", "t">>

\* form_data.items() on a value that is no dict
attribute_error(val) == <<SQ>> \o type_name(val) \o <<SQ>> \o NoItemsError

\* data['_last_updated'] = ... on a value that is no dict
assignment_error(val) == <<SQ>> \o type_name(val) \o <<SQ>> \o NoItemAssignment

\* the texts of the failures of a statement that had no effect on the store
StoreErrors == {RequestTimeout, CompilationError}

\* the texts of the failures of a statement whose effect took place
LostReplies == {ConnectionReset}

UpperLetters == <<"A", "B", "C", "D", "E", "F", "G", "H", "I", "J", "K", "L", "M",
                  "N", "O", "P", "Q", "R", "S", "T", "U", "V", "W", "X", "Y", "Z">>
LowerLetters == <<"a", "b", "c", "d", "e", "f", "g", "h", "i", "j", "k", "l", "m",
                  "n", "o", "p", "q", "r", "s", "t", "u", "v", "w", "x", "y", "z">>

\* str.lower()
lower_letter ==
    [c \in {UpperLetters[n] : n \in 1..26} |->
        LowerLetters[CHOOSE n \in 1..26 : UpperLetters[n] = c]]

lower(s) ==
    [i \in 1..Len(s) |-> IF s[i] \in DOMAIN lower_letter THEN lower_letter[s[i]] ELSE s[i]]

\* sub in s
contains(s, sub) == \E i \in 1..(Len(s) - Len(sub) + 1) : SubSeq(s, i, i + Len(sub) - 1) = sub

WordConnection == <<"c", "o", "n", "n", "e", "c", "t", "i", "o", "n">>
WordTimeout == <<"t", "i", "m", "e", "o", "u", "t">>
WordSession == <<"s", "e", "s", "s", "i", "o", "n">>

----------------------------------------------------------------------------
(* The table SLSP_DEMO.  Snowflake records the PRIMARY KEY of a standard   *)
(* table without enforcing it, so INSERT never rejects a duplicate CID.    *)

Row(cid, data, t) ==
    [cid |-> cid, data |-> data, phase |-> Null, created_at |-> t, last_updated |-> t]

\* SELECT ... FROM SLSP_DEMO WHERE CID = :cid
sql_select(tbl, cid) == SelectSeq(tbl, LAMBDA r : r.cid = cid)

\* an UPDATE that also sets CREATED_AT
sql_update_recreated(tbl, cid, json_data, t) ==
    [i \in 1..Len(tbl) |->
        IF tbl[i].cid = cid
        THEN [tbl[i] EXCEPT !.data = Str(json_data), !.last_updated = t, !.created_at = t]
        ELSE tbl[i]]

\* UPDATE SLSP_DEMO SET DATA = :json_data, LAST_UPDATED = CURRENT_TIMESTAMP() WHERE CID = :cid
sql_update(tbl, cid, json_data, t) ==
    [i \in 1..Len(tbl) |->
        IF tbl[i].cid = cid THEN [tbl[i] EXCEPT !.data = Str(json_data), !.last_updated = t]
        ELSE tbl[i]]

\* INSERT INTO SLSP_DEMO (CID, DATA, CREATED_AT, LAST_UPDATED) VALUES (...)
sql_insert(tbl, cid, json_data, t) == Append(tbl, Row(cid, Str(json_data), t))

----------------------------------------------------------------------------
(* SnowflakeManager.execute_with_retry *)

max_retries == 3

\* a retry test that takes every failure for a transient one
is_retryable_always(e) == TRUE

\* the test of line 99 on the text of the exception
is_retryable(e) ==
    LET error_msg == lower(e)
    IN  contains(error_msg, WordConnection) \/ contains(error_msg, WordTimeout)
            \/ contains(error_msg, WordSession)

\* a call of execute_with_retry begins: the loop starts at attempt 0
begin_retry_loop(r) ==
    IF r.outcome = "running" THEN [r EXCEPT !.calls = @ + 1]
    ELSE [r EXCEPT !.outcome = "running", !.attempt = 0, !.calls = 1, !.delays = 0,
                   !.fails = 0, !.err = <<>>]

\* execute_with_retry with the attempt compared against max_retries itself
execute_with_retry_one_more(r, e) ==
    IF is_retryable(e) /\ r.attempt < max_retries
    THEN [r EXCEPT !.err = e, !.fails = @ + 1, !.session = FALSE,
                   !.delays = @ + 1, !.attempt = @ + 1]
    ELSE [r EXCEPT !.err = e, !.fails = @ + 1, !.outcome = "raised"]

\* a retry that leaves self.session as it is
execute_with_retry_keep_session(r, e) ==
    IF is_retryable(e) /\ r.attempt < max_retries - 1
    THEN [r EXCEPT !.err = e, !.fails = @ + 1, !.delays = @ + 1, !.attempt = @ + 1]
    ELSE [r EXCEPT !.err = e, !.fails = @ + 1, !.outcome = "raised"]

\* the except branch: retry (clear the session, sleep, continue) or re-raise
execute_with_retry(r, e) ==
    IF is_retryable(e) /\ r.attempt < max_retries - 1
    THEN [r EXCEPT !.err = e, !.fails = @ + 1, !.session = FALSE,
                   !.delays = @ + 1, !.attempt = @ + 1]
    ELSE [r EXCEPT !.err = e, !.fails = @ + 1, !.outcome = "raised"]

----------------------------------------------------------------------------
(* One UI session: its manager's cached session and the running operation *)

IdleSession ==
    [pc |-> "idle", kind |-> "none", cid_in |-> <<>>, cid |-> <<>>, data |-> Dict(<<>>),
     session |-> FALSE,       \* self.session is not None
     attempt |-> 0,           \* the loop variable of execute_with_retry
     calls |-> 0,             \* invocations of operation_func by this execute_with_retry
     delays |-> 0,            \* time.sleep(1) calls of this execute_with_retry
     outcome |-> "none",      \* of execute_with_retry: running, returned, raised
     err |-> <<>>,            \* str(e) of the last exception it caught
     fails |-> 0,             \* exceptions this execute_with_retry caught
     touched |-> FALSE,       \* a statement went to the store since the operation began
     pre_exists |-> FALSE,    \* a row of the CID existed when the operation began
     is_update |-> FALSE, exists |-> FALSE, json_data |-> <<>>, via_fallback |-> FALSE,
     loaded |-> Null,         \* what load_form_data returned to the lookup
     result |-> "none"]

\* a browser session that is not open
NoSession == [IdleSession EXCEPT !.pc = "closed"]

Sessions == {1, 2}

\* app_ws.py lines 513-520: the lookup keys of st.session_state as first set
NoLookup ==
    [cid_checked |-> FALSE, cid_exists |-> FALSE, existing_data |-> Dict(<<>>),
     current_cid |-> <<>>, needs_fix |-> FALSE]

\* the table sections of the form: household income, loans, executions
Sections == {"prijmy_domacnosti", "uvery_df", "exekucie_df"}

\* the sections whose data editor returns a copy that is kept beside the table
EditedSections == {"prijmy_domacnosti", "exekucie_df"}

\* a key that is not in st.session_state, where a value is a Python value
Missing == [t |-> "missing", v |-> 0]

\* a key that is not in st.session_state
Absent == [t |-> "absent", columns |-> <<>>, rows |-> <<>>]

\* st.session_state of a browser session before its first script run; an
\* id_counter of 0 is a counter key that is not set.  editor_data is the frame
\* a data editor was given by the last run, edited_data the copy it returned.
\* app_exekucie_df is the exekucie_df of app.py, the form without a store.
\* ai_action_plan and ai_conversation_history are Missing until the AI
\* section of the form sets them.
FreshSession ==
    [df |-> [s \in Sections |-> Absent],
     editor_data |-> [s \in EditedSections |-> Absent],
     edited_data |-> [s \in EditedSections |-> Absent],
     id_counter |-> [s \in Sections |-> 0],
     app_exekucie_df |-> Absent,
     ai_action_plan |-> Missing,
     ai_conversation_history |-> Missing]

\* int(time.time() * 1000) when the session starts: every reading has the
\* same number of digits, two here for the thirteen of a present-day clock
EpochMs == 10

\* a script run that showed no message and left no dialog open
NoMessage == [button |-> "", section |-> "", message |-> "", dialog |-> 0]

\* __init__ (lines 23-27): no session, no last_activity (None is written -1);
\* handle names the Session object self.session refers to, created counts the
\* sessions _create_session has made.  The other fields follow the running
\* execute_with_retry: used is the session the attempt runs on, fresh whether
\* get_session created it for this attempt, failed the session of the attempt
\* that failed last (0: it had none).
NewManager ==
    [pc |-> "idle", session |-> FALSE, handle |-> 0, last_activity |-> 0 - 1, created |-> 0,
     attempt |-> 0, calls |-> 0, delays |-> 0, outcome |-> "none", err |-> <<>>, fails |-> 0,
     used |-> 0, fresh |-> FALSE, failed |-> 0]

ConnOff ==
    /\ conn = NewManager
    /\ live = {}
    /\ wall = 0

TablesOff ==
    /\ session_state = FreshSession
    /\ clock = EpochMs
    /\ shown = NoMessage
    /\ generated = [s \in Sections |-> <<>>]

\* with self.get_session_context() as session: get_session() returned a session
with_session(r) == [begin_retry_loop(r) EXCEPT !.session = TRUE]

\* get_session() returned None: _create_session() failed
without_session(r) == [begin_retry_loop(r) EXCEPT !.session = FALSE]

Unlimited == 0 - 1

\* the environment makes a call fail: a statement, or the creation of a session
Fault ==
    /\ faults # 0
    /\ faults' = IF faults = Unlimited THEN faults ELSE faults - 1

\* a statement goes to the store
sent(r) == [r EXCEPT !.touched = TRUE]

----------------------------------------------------------------------------
(* app_ws.auto_save_data and SnowflakeManager.load_form_data *)

\* a guard that looks for the empty string only
cid_missing_unstripped(cid) == cid = <<>>

\* line 131: not cid or not cid.strip()
cid_missing(cid) == cid = <<>> \/ strip(cid) = <<>>

\* lines 131-138: the guard on the CID, then the operation begins; session is
\* whether the manager holds a cached session
auto_save_call(session, cid, data_to_save) ==
    LET r == [IdleSession EXCEPT !.session = session, !.kind = "auto_save",
                                 !.cid_in = cid, !.data = data_to_save]
    IN  IF cid_missing(cid)
        THEN [r EXCEPT !.pc = "done", !.result = "invalid", !.data = Dict(<<>>)]
        ELSE [r EXCEPT !.pc = "load", !.cid = strip(cid),
                       !.pre_exists = sql_select(table, strip(cid)) # <<>>]

\* a rerun of the script reaches the auto-save with the form as edited
auto_save_data(w, cid, data_to_save) ==
    /\ ws[w].pc \in {"idle", "done"}
    /\ budget > 0
    /\ budget' = budget - 1
    /\ ws' = [ws EXCEPT ![w] = auto_save_call(ws[w].session, cid, data_to_save)]
    /\ UNCHANGED <<table, now, faults, sanVars, formVars, tableVars, connVars>>

\* load_form_data's except branch and lines 138: is_update = existing_data is not None
load_failed(r, e) ==
    LET x == execute_with_retry(r, e)
    IN  IF x.outcome = "raised" THEN [x EXCEPT !.is_update = FALSE, !.pc = "save_select"]
        ELSE [x EXCEPT !.pc = "load"]

load_returned(r, found) ==
    [r EXCEPT !.outcome = "returned", !.is_update = found, !.pc = "save_select"]

\* load_form_data returned data (Null for None) to the caller: the lookup keeps
\* it (app_ws.py line 537), auto_save_data only tests it against None
after_load(r, data) ==
    IF r.kind = "lookup" /\ r.pc = "save_select"
    THEN [r EXCEPT !.pc = "lookup_done", !.loaded = data]
    ELSE r

\* lines 417-421: the metadata added to the loaded record, LAST_UPDATED as text
with_metadata(data, row) ==
    Dict(dict_set(data.v, <<"_", "u">>, Str(int_text(row.last_updated))))

\* one attempt of _load_operation
_load_operation(w) ==
    /\ ws[w].pc = "load"
    /\ UNCHANGED <<table, now, budget, sanVars, formVars, tableVars, connVars>>
    /\ \/ /\ Fault
          /\ ws' = [ws EXCEPT ![w] =
                      after_load(load_failed(without_session(ws[w]), SessionUnavailable), Null)]
       \/ /\ Fault
          /\ \E e \in StoreErrors :
                 ws' = [ws EXCEPT ![w] =
                          after_load(load_failed(sent(with_session(ws[w])), e), Null)]
       \/ /\ UNCHANGED faults
          /\ LET r == sent(with_session(ws[w]))
                 result == sql_select(table, r.cid)
                 truthy == result # <<>> /\ result[1].data.t = "str" /\ result[1].data.v # <<>>
                 data == IF truthy THEN process_json_data(result[1].data)
                         ELSE [ok |-> FALSE, val |-> Null]
             IN  ws' = [ws EXCEPT ![w] =
                          IF ~data.ok \/ data.val.t = "null"
                          THEN after_load(load_returned(r, FALSE), Null)
                          ELSE IF data.val.t = "dict"
                          THEN after_load(load_returned(r, TRUE), with_metadata(data.val, result[1]))
                          ELSE after_load(load_failed(r, assignment_error(data.val)), Null)]

----------------------------------------------------------------------------
(* SnowflakeManager.save_form_data *)

\* the record serialized as it came
json_data_unsanitized(form_data) == json_dumps(form_data)

\* lines 117-121: sanitize, then serialize
json_data_of(form_data) == json_dumps(sanitize_form_data(form_data))

\* save_form_data's except branch (return False) and auto_save_data's "error"
save_failed(r, e) ==
    LET x == execute_with_retry(r, e)
    IN  IF x.outcome = "raised" THEN [x EXCEPT !.result = "error", !.pc = "done"]
        ELSE [x EXCEPT !.pc = "save_select"]

\* _save_operation up to the existence check (lines 112-121)
_save_operation_select(w) ==
    /\ ws[w].pc = "save_select"
    /\ UNCHANGED <<table, now, budget, sanVars, formVars, tableVars, connVars>>
    /\ \/ /\ Fault
          /\ ws' = [ws EXCEPT ![w] = save_failed(without_session(ws[w]), SessionUnavailable)]
       \/ /\ Fault
          /\ \E e \in StoreErrors :
                 ws' = [ws EXCEPT ![w] = save_failed(sent(with_session(ws[w])), e)]
       \/ /\ UNCHANGED faults
          /\ LET r == sent(with_session(ws[w]))
                 result == sql_select(table, r.cid)
             IN  ws' = [ws EXCEPT ![w] =
                          [r EXCEPT !.exists = Len(result) > 0,
                                    !.json_data = json_data_of(r.data),
                                    !.pc = "save_write"]]

\* a save that inserts without looking at the existence check
save_statement_insert(tbl, r, t) == sql_insert(tbl, r.cid, r.json_data, t)

\* the statement of lines 123-144, phase is None
save_statement(tbl, r, t) ==
    IF r.exists THEN sql_update(tbl, r.cid, r.json_data, t)
    ELSE sql_insert(tbl, r.cid, r.json_data, t)

\* _save_operation from the UPDATE or INSERT on (lines 123-145), and lines 143-149
_save_operation_write(w) ==
    /\ ws[w].pc = "save_write"
    /\ UNCHANGED <<budget, sanVars, formVars, tableVars, connVars>>
    /\ LET r == sent(ws[w])
       IN  \/ /\ UNCHANGED faults
              /\ table' = save_statement(table, r, now + 1)
              /\ now' = now + 1
              /\ ws' = [ws EXCEPT ![w] =
                          [r EXCEPT !.outcome = "returned", !.pc = "done",
                                    !.result = IF r.is_update THEN "updated" ELSE "created"]]
           \/ \E e \in StoreErrors :
                  /\ Fault
                  /\ ws' = [ws EXCEPT ![w] = save_failed(r, e)]
                  /\ UNCHANGED <<table, now>>
           \/ \E e \in LostReplies :
                  \* the statement took effect, its reply was lost
                  /\ Fault
                  /\ ws' = [ws EXCEPT ![w] = save_failed(r, e)]
                  /\ table' = save_statement(table, r, now + 1)
                  /\ now' = now + 1

----------------------------------------------------------------------------
(* SnowflakeManager.fix_corrupted_record *)

\* the UI calls it with cid.strip() of a non-blank CID field (app_ws.py line 600)
fix_corrupted_record(w, cid) ==
    /\ ws[w].pc \in {"idle", "done"}
    /\ budget > 0
    /\ budget' = budget - 1
    /\ ws' = [ws EXCEPT ![w] =
                [IdleSession EXCEPT !.session = ws[w].session, !.kind = "repair",
                                    !.cid_in = cid, !.cid = cid, !.pc = "fix_select",
                                    !.pre_exists = sql_select(table, cid) # <<>>]]
    /\ UNCHANGED <<table, now, faults, sanVars, formVars, tableVars, connVars>>

\* fix_corrupted_record's except branch (lines 285-287)
fix_failed(r, e) ==
    LET x == execute_with_retry(r, e)
    IN  IF x.outcome = "raised" THEN [x EXCEPT !.result = "false", !.pc = "done"]
        ELSE [x EXCEPT !.pc = "fix_select"]

fix_returned(r, value) ==
    [r EXCEPT !.outcome = "returned", !.pc = "done", !.result = IF value THEN "true" ELSE "false"]

\* a repair that writes the escaped text back when neither parse succeeds
_fix_operation_parse_overwrite(r, result) ==
    LET raw_data == result[1].data
        direct == json_loads(raw_data.v)
        cleaned == json_loads(clean_json_data_advanced(raw_data.v))
        to_write(json_text, fallback) ==
            [r EXCEPT !.json_data = json_text, !.via_fallback = fallback, !.pc = "fix_write"]
    IN  IF result = <<>> THEN fix_returned(r, FALSE)
        ELSE IF raw_data.t = "null" THEN fix_failed(r, NotStrError)
        ELSE IF direct.ok
             THEN IF direct.val.t = "dict"
                  THEN to_write(json_dumps(sanitize_form_data(direct.val)), FALSE)
                  ELSE fix_failed(r, attribute_error(direct.val))
        ELSE IF cleaned.ok /\ cleaned.val.t = "dict"
             THEN to_write(json_dumps(sanitize_form_data(cleaned.val)), TRUE)
        ELSE to_write(clean_json_data_advanced(raw_data.v), TRUE)

\* lines 242-270 and 280-283: from the fetched rows to the text to write, or
\* to the value returned without a write
_fix_operation_parse(r, result) ==
    LET raw_data == result[1].data
        direct == json_loads(raw_data.v)
        cleaned == json_loads(clean_json_data_advanced(raw_data.v))
        to_write(parsed_data, fallback) ==
            [r EXCEPT !.json_data = json_dumps(sanitize_form_data(parsed_data)),
                      !.via_fallback = fallback, !.pc = "fix_write"]
    IN  IF result = <<>> THEN fix_returned(r, FALSE)
        ELSE IF raw_data.t = "null" THEN fix_failed(r, NotStrError)
        ELSE IF direct.ok
             THEN IF direct.val.t = "dict" THEN to_write(direct.val, FALSE)
                  ELSE fix_failed(r, attribute_error(direct.val))
        ELSE IF cleaned.ok /\ cleaned.val.t = "dict" THEN to_write(cleaned.val, TRUE)
        ELSE fix_returned(r, FALSE)

\* one attempt of _fix_operation up to the text to write (lines 239-270)
_fix_operation_select(w) ==
    /\ ws[w].pc = "fix_select"
    /\ UNCHANGED <<table, now, budget, sanVars, formVars, tableVars, connVars>>
    /\ \/ /\ Fault
          /\ ws' = [ws EXCEPT ![w] = fix_failed(without_session(ws[w]), SessionUnavailable)]
       \/ /\ Fault
          /\ \E e \in StoreErrors :
                 ws' = [ws EXCEPT ![w] = fix_failed(sent(with_session(ws[w])), e)]
       \/ /\ UNCHANGED faults
          /\ LET r == sent(with_session(ws[w]))
             IN  ws' = [ws EXCEPT ![w] = _fix_operation_parse(r, sql_select(table, r.cid))]

\* the UPDATE of lines 255-259 or 273-277; the inner except of line 279 catches
\* a failure of the second one
_fix_operation_write(w) ==
    /\ ws[w].pc = "fix_write"
    /\ UNCHANGED <<budget, sanVars, formVars, tableVars, connVars>>
    /\ LET r == sent(ws[w])
           failed(e) == IF r.via_fallback THEN fix_returned(r, FALSE) ELSE fix_failed(r, e)
       IN  \/ /\ UNCHANGED faults
              /\ table' = sql_update(table, r.cid, r.json_data, now + 1)
              /\ now' = now + 1
              /\ ws' = [ws EXCEPT ![w] = fix_returned(r, TRUE)]
           \/ \E e \in StoreErrors :
                  /\ Fault
                  /\ ws' = [ws EXCEPT ![w] = failed(e)]
                  /\ UNCHANGED <<table, now>>
           \/ \E e \in LostReplies :
                  /\ Fault
                  /\ ws' = [ws EXCEPT ![w] = failed(e)]
                  /\ table' = sql_update(table, r.cid, r.json_data, now + 1)
                  /\ now' = now + 1

----------------------------------------------------------------------------
(* Inputs of the sanitizer *)

MaxStrLen == 3

InChars == {"a", SP, LF, CR, TAB, NUL, DEL, NBSP, DQ, SQ, LDQ, RSQ}

KeyK == <<"k">>
KeyID == <<"I", "D">>

\* where the string sits: a top-level value, a list element, a value of a row record
SanShapes == {"value", "item", "row"}

san_input(shape, s) ==
    CASE shape = "value" -> Dict(<< <<KeyK, Str(s)>> >>)
      [] shape = "item" -> Dict(<< <<KeyK, List(<<Str(s)>>)>> >>)
      [] shape = "row" -> Dict(<< <<KeyK, List(<<Dict(<< <<KeyID, Str(s)>> >>)>>)>> >>)

\* the string leaves at the three places
StringLeaves(d) ==
    {d.v[i][2].v : i \in {n \in 1..Len(d.v) : d.v[n][2].t = "str"}}
        \cup UNION {
               LET l == d.v[i][2].v
               IN  {l[j].v : j \in {n \in 1..Len(l) : l[n].t = "str"}}
                     \cup UNION {{l[j].v[m][2].v : m \in {n \in 1..Len(l[j].v) : l[j].v[n][2].t = "str"}}
                                    : j \in {n \in 1..Len(l) : l[n].t = "dict"}}
               : i \in {n \in 1..Len(d.v) : d.v[n][2].t = "list"}}

Chars(s) == {s[i] : i \in 1..Len(s)}

----------------------------------------------------------------------------
(* The sanitizer applied once and twice *)

SanInit ==
    /\ \E shape \in SanShapes :
          \* short strings, and strings around the literal of line 210
          \/ \E len \in 0..MaxStrLen : \E s \in [1..len -> InChars] :
                 san_in = san_input(shape, s)
          \/ \E m \in 0..1, n \in 0..1 : \E p \in [1..m -> InChars], q \in [1..n -> InChars] :
                 san_in = san_input(shape, p \o TripleQuoted \o q)
    /\ san_out = Dict(<<>>)
    /\ san_out2 = Dict(<<>>)
    /\ san_pc = "in"
    /\ table = <<>>
    /\ now = 0
    /\ ws = [w \in Sessions |-> NoSession]
    /\ budget = 0
    /\ faults = 0
    /\ ui = [w \in Sessions |-> NoLookup]
    /\ TablesOff
    /\ ConnOff

SanitizeOnce ==
    /\ san_pc = "in"
    /\ san_out' = sanitize_form_data(san_in)
    /\ san_pc' = "once"
    /\ UNCHANGED <<san_in, san_out2, storeVars, formVars, tableVars, connVars>>

SanitizeTwice ==
    /\ san_pc = "once"
    /\ san_out2' = sanitize_form_data(san_out)
    /\ san_pc' = "twice"
    /\ UNCHANGED <<san_in, san_out, storeVars, formVars, tableVars, connVars>>

SanNext == SanitizeOnce \/ SanitizeTwice

SanSpec == SanInit /\ [][SanNext]_vars

----------------------------------------------------------------------------
(* The sanitizer applied to nested records *)

\* a string that the sanitizer changes: a quote, a letter, a newline
DirtyText == <<DQ, "a", LF>>

\* the scalars of a record: text, number, boolean, None, a date
SanLeaves == {Str(DirtyText), Num(1), Bool(TRUE), Null, Date(<<"1">>)}

\* a scalar, or a list or a mapping that holds one
NestedOnce ==
    SanLeaves \cup {List(<<v>>) : v \in SanLeaves}
              \cup {Dict(<< <<KeyID, v>> >>) : v \in SanLeaves}

\* one level more: lists of two values, mappings in mappings, lists in lists
NestedTwice ==
    NestedOnce \cup {List(<<u, v>>) : u \in NestedOnce, v \in NestedOnce}
               \cup {Dict(<< <<KeyID, v>> >>) : v \in NestedOnce}

NestInit ==
    /\ \E v \in NestedTwice, w \in SanLeaves :
          san_in = Dict(<< <<KeyK, v>>, <<KeyID, w>> >>)
    /\ san_out = Dict(<<>>)
    /\ san_out2 = Dict(<<>>)
    /\ san_pc = "in"
    /\ table = <<>>
    /\ now = 0
    /\ ws = [w \in Sessions |-> NoSession]
    /\ budget = 0
    /\ faults = 0
    /\ ui = [w \in Sessions |-> NoLookup]
    /\ TablesOff
    /\ ConnOff

NestSpec == NestInit /\ [][SanNext]_vars

----------------------------------------------------------------------------
(* Inputs and initial states of the store operations *)

MaxOps == 2
MaxConcOps == 2
MaxConcFaults == 1

CidA == <<"A">>
CidB == <<"B">>

\* what the CID field may hold when auto-save runs
CidInputs == {<<>>, <<SP>>, <<SP, "A", SP>>}

KeyName == <<"m">>
KeyDate == <<"d">>
KeyRows == <<"r">>
KeyNum == <<"n">>

\* {"m": "J \"T\"<LF>N"}: quotes and a newline in a name
RecordQuoted == Dict(<< <<KeyName, Str(<<"J", SP, DQ, "T", DQ, LF, "N">>)>> >>)

\* {"m": "\" a"}: a double quote before a space
RecordEdgeQuote == Dict(<< <<KeyName, Str(<<DQ, SP, "a">>)>> >>)

\* text with a backslash and an apostrophe, a number, a boolean, a null, a date
\* of st.date_input (str(date(1900, 1, 1))) and a table section: one row record,
\* and a plain string in a list
RecordRows ==
    Dict(<< <<KeyName, Str(<<"a", BSL, SQ>>)>>, <<KeyNum, Num(10)>>,
            <<KeyK, Bool(TRUE)>>, <<KeyID, Null>>,
            <<KeyDate, Date(<<"1", "9", "0", "0", "-", "0", "1", "-", "0", "1">>)>>,
            <<KeyRows, List(<<Dict(<< <<KeyID, Str(<<"P", "R", "1">>)>>, <<KeyNum, Num(5)>>,
                                      <<KeyK, Str(<<TAB, "x", DQ>>)>> >>),
                              Str(<<"y", NUL>>)>>)>> >>)

SaveInputs == {RecordQuoted, RecordRows, RecordEdgeQuote}

\* stored DATA of an earlier writer
TextValid == json_dumps(Dict(<< <<KeyName, Str(<<"o", "k">>)>> >>))
\* {"m": "a<LF>b"}: a raw newline inside a string
TextRawNewline == <<"{", DQ, "m", DQ, ":", SP, DQ, "a", LF, "b", DQ, "}">>
\* {"m": "a : cut off inside a string
TextTruncated == <<"{", DQ, "m", DQ, ":", SP, DQ, "a">>
\* a JSON document that is a list
TextList == <<"[", "1", "]">>
\* {<LF>"m": "a<TAB>b"}: a raw tab inside a string, and a newline between tokens
TextRawTabIndented == <<"{", LF, DQ, "m", DQ, ":", SP, DQ, "a", TAB, "b", DQ, "}">>

InitTables ==
    {<<>>,
     <<Row(CidA, Str(TextValid), 0)>>,
     <<Row(CidA, Str(TextRawNewline), 0)>>,
     <<Row(CidA, Str(TextTruncated), 0)>>,
     <<Row(CidA, Null, 0)>>,
     <<Row(CidB, Str(TextValid), 0), Row(CidA, Str(TextList), 0)>>,
     <<Row(CidB, Str(TextRawTabIndented), 0)>>}

SanOff ==
    /\ san_in = Dict(<<>>)
    /\ san_out = Dict(<<>>)
    /\ san_out2 = Dict(<<>>)
    /\ san_pc = "off"

\* one UI session
Init ==
    /\ SanOff
    /\ table \in InitTables
    /\ now = 0
    /\ ws = [w \in Sessions |-> IF w = 1 THEN IdleSession ELSE NoSession]
    /\ budget = MaxOps
    /\ faults = Unlimited
    /\ ui = [w \in Sessions |-> NoLookup]
    /\ TablesOff
    /\ ConnOff

\* two UI sessions, each with its own manager
ConcInit ==
    /\ SanOff
    /\ table \in InitTables
    /\ now = 0
    /\ ws = [w \in Sessions |-> IdleSession]
    /\ budget = MaxConcOps
    /\ faults = MaxConcFaults
    /\ ui = [w \in Sessions |-> NoLookup]
    /\ TablesOff
    /\ ConnOff

Next ==
    \/ \E w \in Sessions, cid \in CidInputs, data_to_save \in SaveInputs :
           auto_save_data(w, cid, data_to_save)
    \/ \E w \in Sessions : _load_operation(w)
    \/ \E w \in Sessions : _save_operation_select(w)
    \/ \E w \in Sessions : _save_operation_write(w)
    \/ \E w \in Sessions, cid \in {CidA, CidB} : fix_corrupted_record(w, cid)
    \/ \E w \in Sessions : _fix_operation_select(w)
    \/ \E w \in Sessions : _fix_operation_write(w)

Spec == Init /\ [][Next]_vars

----------------------------------------------------------------------------
(* app_ws.main: the CID lookup and the render of the form that follows it.  *)
(* Two fields stand for the form: the client's name and the employee's      *)
(* e-mail, whose widget starts at "@slsp.sk" (written "@" here).            *)

KeyEmail == <<"e">>
DefaultEmail == <<"@">>

\* dict.get(key, default)
RECURSIVE dict_get(_, _, _)
dict_get(items, key, default) ==
    IF items = <<>> THEN default
    ELSE IF Head(items)[1] = key THEN Head(items)[2]
    ELSE dict_get(Tail(items), key, default)

\* bool(value)
truthy(value) ==
    CASE value.t \in {"str", "date", "list", "dict"} -> value.v # <<>>
      [] value.t = "num" -> value.v # 0
      [] value.t = "bool" -> value.v
      [] OTHER -> FALSE

\* line 543: {k: v for k, v in existing_data.items() if not k.startswith('_')}
without_metadata(items) == SelectSeq(items, LAMBDA kv : kv[1] = <<>> \/ kv[1][1] # "_")

\* lines 2421-2424: clean_text
clean_text(text) == IF text.t = "str" THEN Str(replace(text.v, <<DQ>>, <<>>)) ELSE text

\* lines 618-621 and 2426-2475: the widgets start at the stored values, and
\* data_to_save holds what the widgets hold
data_to_save_of(existing_data) ==
    Dict(<< <<KeyName, clean_text(dict_get(existing_data.v, KeyName, Str(<<>>)))>>,
            <<KeyEmail, dict_get(existing_data.v, KeyEmail, Str(DefaultEmail))>> >>)

\* the key of the section in data_to_save and in existing_data
section_key(s) ==
    CASE s = "prijmy_domacnosti" -> <<"p">>
      [] s = "uvery_df" -> <<"u">>
      [] s = "exekucie_df" -> <<"x">>

\* lines 2658-2679: has_data
has_data(data_to_save) ==
    \/ truthy(dict_get(data_to_save.v, KeyEmail, Null))
    \/ truthy(dict_get(data_to_save.v, KeyName, Null))
    \/ \E s \in Sections : truthy(dict_get(data_to_save.v, section_key(s), List(<<>>)))

\* lines 523-537 and 583-585: the Vyhladat button is clicked with cid in the field
lookup(w, cid) ==
    /\ ws[w].pc \in {"idle", "done"}
    /\ budget > 0
    /\ budget' = budget - 1
    /\ IF strip(cid) = <<>>
       THEN /\ ws' = ws
            /\ ui' = [ui EXCEPT ![w] =
                        IF strip(cid) # ui[w].current_cid
                        THEN [ui[w] EXCEPT !.cid_checked = FALSE, !.needs_fix = FALSE]
                        ELSE ui[w]]
       ELSE /\ ws' = [ws EXCEPT ![w] =
                        [IdleSession EXCEPT !.session = ws[w].session, !.kind = "lookup",
                                            !.cid_in = cid, !.cid = strip(cid), !.pc = "load",
                                            !.pre_exists = sql_select(table, strip(cid)) # <<>>]]
            /\ ui' = ui
    /\ UNCHANGED <<table, now, faults, sanVars, tableVars, connVars>>

\* lines 539-554: the lookup keys after load_form_data returned
lookup_state(existing_data, cid) ==
    [cid_checked |-> TRUE,
     cid_exists |-> truthy(existing_data),
     existing_data |-> IF truthy(existing_data) THEN Dict(without_metadata(existing_data.v))
                       ELSE Dict(<<>>),
     current_cid |-> strip(cid),
     needs_fix |-> FALSE]

\* lines 539-554, 588-621 and 2426-2696: the rest of the script run of the
\* lookup: the lookup keys are set, the form is rendered from existing_data
\* and the auto-save runs when has_data
render_form(w) ==
    /\ ws[w].pc = "lookup_done"
    /\ ui' = [ui EXCEPT ![w] = lookup_state(ws[w].loaded, ws[w].cid_in)]
    /\ LET data_to_save == data_to_save_of(ui'[w].existing_data)
       IN  ws' = [ws EXCEPT ![w] =
                    IF has_data(data_to_save)
                    THEN auto_save_call(ws[w].session, ws[w].cid_in, data_to_save)
                    ELSE [ws[w] EXCEPT !.pc = "done"]]
    /\ UNCHANGED <<table, now, budget, faults, sanVars, tableVars, connVars>>

\* the CID field is compared with current_cid without any reset
keep_cid_checked(u, cid) == u

\* lines 583-585: "Reset if CID changed"
reset_if_cid_changed(u, cid) ==
    IF strip(cid) # u.current_cid
    THEN [u EXCEPT !.cid_checked = FALSE, !.needs_fix = FALSE]
    ELSE u

\* lines 583-588 and 2426-2696: a run of the script with cid in the field and
\* no click on Vyhladat (the field was edited, or a widget of the form
\* triggered the run without changing a value): the form is rendered only
\* while cid_checked, and the auto-save runs when has_data
rerun(w, cid) ==
    /\ ws[w].pc \in {"idle", "done"}
    /\ budget > 0
    /\ budget' = budget - 1
    /\ ui' = [ui EXCEPT ![w] = reset_if_cid_changed(ui[w], cid)]
    /\ LET data_to_save == data_to_save_of(ui'[w].existing_data)
       IN  ws' = [ws EXCEPT ![w] =
                    IF ui'[w].cid_checked /\ strip(cid) # <<>> /\ has_data(data_to_save)
                    THEN auto_save_call(ws[w].session, cid, data_to_save)
                    ELSE [IdleSession EXCEPT !.session = ws[w].session, !.kind = "rerun",
                                             !.cid_in = cid, !.pc = "done"]]
    /\ UNCHANGED <<table, now, faults, sanVars, tableVars, connVars>>

\* {"e": ""}: a stored record with an emptied e-mail field and nothing else
TextNoEmail == json_dumps(Dict(<< <<KeyEmail, Str(<<>>)>> >>))

UiInit ==
    /\ SanOff
    /\ table \in InitTables \cup {<<Row(CidA, Str(TextNoEmail), 0)>>}
    /\ now = 0
    /\ ws = [w \in Sessions |-> IF w = 1 THEN IdleSession ELSE NoSession]
    /\ budget = MaxOps
    /\ faults = Unlimited
    /\ ui = [w \in Sessions |-> NoLookup]
    /\ TablesOff
    /\ ConnOff

UiNext ==
    \/ \E w \in Sessions, cid \in CidInputs \cup {CidB} : lookup(w, cid)
    \/ \E w \in Sessions : _load_operation(w)
    \/ \E w \in Sessions : render_form(w)
    \/ \E w \in Sessions, cid \in CidInputs \cup {CidB} : rerun(w, cid)
    \/ \E w \in Sessions : _save_operation_select(w)
    \/ \E w \in Sessions : _save_operation_write(w)

\* one UI session looking CIDs up
UiSpec == UiInit /\ [][UiNext]_vars

\* the next step of the operation session w has started
Attempt(w) ==
    \/ _load_operation(w)
    \/ _save_operation_select(w)
    \/ _save_operation_write(w)
    \/ _fix_operation_select(w)
    \/ _fix_operation_write(w)

ConcSpec == ConcInit /\ [][Next]_vars

----------------------------------------------------------------------------
(* pandas, as far as the table sections use it.  A DataFrame is its column  *)
(* labels and its rows, one value per column in each row; its index is      *)
(* always 0..n-1 (reset_index(drop=True), ignore_index=True), written 1..n. *)

\* float('nan'): what pandas puts where a record has no value for a column
NaN == [t |-> "nan", v |-> 0]

Frame(columns, rows) == [t |-> "frame", columns |-> columns, rows |-> rows]

\* col in df.columns
has_column(df, col) == \E j \in 1..Len(df.columns) : df.columns[j] = col

column_loc(df, col) == CHOOSE j \in 1..Len(df.columns) : df.columns[j] = col

\* df.iloc[i][col]
cell(df, i, col) == df.rows[i][column_loc(df, col)]

\* df[col], a Series
series(df, col) == [i \in 1..Len(df.rows) |-> cell(df, i, col)]

\* df.empty
empty(df) == df.rows = <<>> \/ df.columns = <<>>

RECURSIVE record_columns(_, _)
\* the keys of the records in the order of their first appearance
record_columns(records, acc) ==
    IF records = <<>> THEN acc
    ELSE LET keys == [j \in 1..Len(Head(records).v) |-> Head(records).v[j][1]]
             fresh == SelectSeq(keys, LAMBDA k : \A j \in 1..Len(acc) : acc[j] # k)
         IN  record_columns(Tail(records), acc \o fresh)

\* pd.DataFrame(records), records a list of dicts
DataFrame(records) ==
    LET columns == record_columns(records, <<>>)
    IN  Frame(columns,
              [i \in 1..Len(records) |->
                  [j \in 1..Len(columns) |-> dict_get(records[i].v, columns[j], NaN)]])

\* df[col] = values: the column is replaced, or added as the last one
assign_column(df, col, values) ==
    IF has_column(df, col)
    THEN Frame(df.columns,
               [i \in 1..Len(df.rows) |->
                   [j \in 1..Len(df.columns) |->
                       IF df.columns[j] = col THEN values[i] ELSE df.rows[i][j]]])
    ELSE Frame(Append(df.columns, col),
               [i \in 1..Len(df.rows) |-> Append(df.rows[i], values[i])])

\* a scalar broadcast to the rows of df
broadcast(df, value) == [i \in 1..Len(df.rows) |-> value]

\* df.insert(loc, col, values): values is aligned on the index, NaN where it ends
insert(df, loc, col, values) ==
    LET at(i) == IF i <= Len(values) THEN values[i] ELSE NaN
    IN  Frame(SubSeq(df.columns, 1, loc) \o <<col>> \o SubSeq(df.columns, loc + 1, Len(df.columns)),
              [i \in 1..Len(df.rows) |->
                  SubSeq(df.rows[i], 1, loc) \o <<at(i)>>
                      \o SubSeq(df.rows[i], loc + 1, Len(df.rows[i]))])

\* df.reindex(columns=column_order, fill_value=fill_value)
reindex(df, column_order, fill_value) ==
    Frame(column_order,
          [i \in 1..Len(df.rows) |->
              [j \in 1..Len(column_order) |->
                  IF has_column(df, column_order[j]) THEN cell(df, i, column_order[j])
                  ELSE fill_value]])

\* df.drop(columns=[col], errors="ignore")
drop_column(df, col) ==
    LET keep == {j \in 1..Len(df.columns) : df.columns[j] # col}
        pick(row) == SelectSeq([j \in 1..Len(row) |-> <<j, row[j]>>], LAMBDA c : c[1] \in keep)
    IN  Frame(SelectSeq(df.columns, LAMBDA c : c # col),
              [i \in 1..Len(df.rows) |->
                  [j \in 1..Len(pick(df.rows[i])) |-> pick(df.rows[i])[j][2]]])

\* df.drop(index=i).reset_index(drop=True)
drop_row(df, i) ==
    Frame(df.columns, SubSeq(df.rows, 1, i - 1) \o SubSeq(df.rows, i + 1, Len(df.rows)))

\* pd.concat([df, new_df], ignore_index=True)
concat(df, new_df) ==
    LET fresh == SelectSeq(new_df.columns, LAMBDA c : ~has_column(df, c))
        columns == df.columns \o fresh
        widen(d) == [i \in 1..Len(d.rows) |->
                        [j \in 1..Len(columns) |->
                            IF has_column(d, columns[j]) THEN cell(d, i, columns[j]) ELSE NaN]]
    IN  Frame(columns, widen(df) \o widen(new_df))

\* df.to_dict('records')
to_dict(df) ==
    [i \in 1..Len(df.rows) |->
        Dict([j \in 1..Len(df.columns) |-> <<df.columns[j], df.rows[i][j]>>])]

\* df.iloc[i, df.columns.get_loc(col)] = value
set_cell(df, i, col, value) ==
    Frame(df.columns,
          [k \in 1..Len(df.rows) |->
              IF k = i THEN [j \in 1..Len(df.columns) |->
                                IF df.columns[j] = col THEN value ELSE df.rows[k][j]]
              ELSE df.rows[k]])

----------------------------------------------------------------------------
(* app_ws.main: the table sections.  Each has the columns "Vybrať" (the     *)
(* selection checkbox), "ID" and its data columns; one text column stands   *)
(* for the data columns of a section.                                       *)

KeyVybrat == <<"V">>
\* "Číslo", the row label of app.py and of records written by it
KeyCislo == <<"C">>

\* "Kto:", "Kde som si požičal?", "Meno exekútora"
data_column(s) ==
    CASE s = "prijmy_domacnosti" -> <<"o">>
      [] s = "uvery_df" -> <<"q">>
      [] s = "exekucie_df" -> <<"j">>

id_prefix(s) ==
    CASE s = "prijmy_domacnosti" -> <<"P", "R">>
      [] s = "uvery_df" -> <<"U", "V">>
      [] s = "exekucie_df" -> <<"E", "X">>

column_order(s) == <<KeyVybrat, KeyID, data_column(s)>>

\* the value given to a required column that the loaded records do not have
required_default(col) == IF col = KeyVybrat THEN Bool(FALSE) ELSE Str(<<>>)

RECURSIVE with_required(_, _)
\* for col in required_columns: if col not in loaded_df.columns: loaded_df[col] = default
with_required(df, cols) ==
    IF cols = <<>> THEN df
    ELSE with_required(IF has_column(df, Head(cols)) THEN df
                       ELSE assign_column(df, Head(cols), broadcast(df, required_default(Head(cols)))),
                       Tail(cols))

\* the table of a section that is not in st.session_state: the stored rows
\* (a list of records) under the expected columns, or no rows
loaded_frame(s, existing_data) ==
    LET default == dict_get(existing_data.v, section_key(s), List(<<>>))
    IN  IF truthy(default)
        THEN reindex(with_required(DataFrame(default.v), column_order(s)),
                     column_order(s), Str(<<>>))
        ELSE Frame(column_order(s), <<>>)

\* for i in range(len(df)): an ID that is NaN or "" becomes f"{prefix}{int(time.time()*1000) + i}"
generated_where_empty(s, df, t) ==
    assign_column(df, KeyID,
                  [i \in 1..Len(df.rows) |->
                      IF cell(df, i, KeyID) \in {NaN, Str(<<>>)}
                      THEN Str(id_prefix(s) \o int_text(t + i - 1))
                      ELSE cell(df, i, KeyID)])

\* df.rename(columns={old: new})
rename(df, old, new) ==
    Frame([j \in 1..Len(df.columns) |-> IF df.columns[j] = old THEN new ELSE df.columns[j]],
          df.rows)

\* "Ensure selection column exists" and "Migrate old data", run by every
\* script run on the table that is in st.session_state
migrate_ids(s, df, t) ==
    LET selectable == IF has_column(df, KeyVybrat) THEN df
                      ELSE insert(df, 0, KeyVybrat, broadcast(df, Bool(FALSE)))
    IN  IF s = "exekucie_df"
        THEN with_required(IF has_column(selectable, KeyCislo) /\ ~has_column(selectable, KeyID)
                           THEN generated_where_empty(s, rename(selectable, KeyCislo, KeyID), t)
                           ELSE selectable,
                           column_order(s))
        ELSE IF has_column(selectable, KeyID) THEN selectable
        ELSE generated_where_empty(
                 s, insert(selectable, 1, KeyID, broadcast(selectable, Str(<<>>))), t)

\* the table of section s after the initialisation block of a script run
init_table(s, df, existing_data, t) ==
    migrate_ids(s, IF df = Absent THEN loaded_frame(s, existing_data) ELSE df, t)

\* str.zfill: f"{counter:03d}" is zfill(int_text(counter), 3)
zfill(digits, width) == [i \in 1..(width - Len(digits)) |-> "0"] \o digits

\* a generator that leaves the counter out of the ID
_generate_id_timestamp_only(s, t, counter) == id_prefix(s) \o int_text(t)

\* _generate_prijmy_id, _generate_uvery_id, _generate_exekucie_id
_generate_id(s, t, counter) == id_prefix(s) \o int_text(t) \o zfill(int_text(counter), 3)

\* the frame given to the data editor of the section: the table without "ID"
display_df(s, df) ==
    IF s = "uvery_df" THEN reindex(df, <<KeyVybrat, data_column(s)>>, Str(<<>>))
    ELSE drop_column(df, KeyID)

\* a merge that gives each row of the editor's copy the ID of the row below
\* it, and the last row the ID of the first
edited_with_next_id(df, edited_data) ==
    LET ids == series(df, KeyID)
    IN  insert(edited_data, 1, KeyID, SubSeq(ids, 2, Len(ids)) \o SubSeq(ids, 1, 1))

\* edited_with_id: the ID column of the table put back into the editor's copy
edited_with_id(df, edited_data) == insert(edited_data, 1, KeyID, series(df, KeyID))

\* "save any current edits from the data editor": the table after the merge
merge_edits(df, edited_data) ==
    IF edited_data = Absent THEN df
    ELSE IF has_column(df, KeyID) THEN edited_with_id(df, edited_data)
    ELSE edited_data

\* _get_prijmy_data_for_save, _get_exekucie_data_for_save
_get_data_for_save(df, edited_data) ==
    IF empty(df) THEN <<>>
    ELSE IF edited_data # Absent /\ ~empty(edited_data)
    THEN IF has_column(df, KeyID) THEN to_dict(edited_with_id(df, edited_data))
         ELSE to_dict(edited_data)
    ELSE to_dict(df)

\* the rows of section s that the form shows and the auto-save writes
section_records(ss, s) ==
    IF s = "uvery_df" THEN (IF empty(ss.df[s]) THEN <<>> ELSE to_dict(ss.df[s]))
    ELSE _get_data_for_save(ss.df[s], ss.edited_data[s])

\* df.index[df["Vybrať"] == True].tolist()
selected_idxs(df) ==
    {i \in 1..Len(df.rows) : cell(df, i, KeyVybrat) \in {Bool(TRUE), Num(1)}}

\* a precondition that takes any selection for a single one
single_selection_any(idxs) == idxs # {}

\* len(selected_idxs) == 1: neither of the two warnings
single_selection(idxs) == Cardinality(idxs) = 1

\* the warning of a click without a single selection
selection_warning(idxs) == IF idxs = {} THEN "warning_none" ELSE "warning_many"

\* st.data_editor(display_df, key=...): its edits are kept while it is given
\* the frame of the run before, and are given up when the frame has changed.
\* The copy it returns is kept as <section>_edited_data, and is deleted when
\* the table is empty.
data_editor(ss, s) ==
    LET input == display_df(s, ss.df[s])
    IN  IF empty(ss.df[s]) THEN [input |-> ss.editor_data[s], output |-> Absent]
        ELSE IF input = ss.editor_data[s] /\ ss.edited_data[s] # Absent
        THEN [input |-> input, output |-> ss.edited_data[s]]
        ELSE [input |-> input, output |-> input]

\* the part of a script run below the buttons: the editors are rendered
rendered(ss) ==
    [ss EXCEPT !.editor_data = [s \in EditedSections |-> data_editor(ss, s).input],
               !.edited_data = [s \in EditedSections |-> data_editor(ss, s).output]]

KeyPlan == <<"a", "p">>
KeyHistory == <<"a", "h">>

\* st.session_state.get(key, default)
session_get(value, default) == IF value = Missing THEN default ELSE value

\* data_to_save (lines 2426-2475) with its table sections and the AI keys
data_to_save_with_tables(existing_data, ss) ==
    Dict(data_to_save_of(existing_data).v
         \o [k \in 1..3 |->
                LET s == <<"prijmy_domacnosti", "uvery_df", "exekucie_df">>[k]
                IN  <<section_key(s), List(section_records(ss, s))>>]
         \o << <<KeyPlan, session_get(ss.ai_action_plan, Str(<<>>))>>,
                <<KeyHistory, session_get(ss.ai_conversation_history, List(<<>>))>> >>)

\* lines 2494-2498: the AI keys are set from existing_data when they are not
\* in st.session_state
ai_session_init(ss, existing_data) ==
    [ss EXCEPT
        !.ai_action_plan =
            IF @ = Missing THEN dict_get(existing_data.v, KeyPlan, Str(<<>>)) ELSE @,
        !.ai_conversation_history =
            IF @ = Missing THEN dict_get(existing_data.v, KeyHistory, List(<<>>)) ELSE @]

\* load_form_data without a failure of the store: the record, or None
load_form_data(tbl, cid) ==
    LET result == sql_select(tbl, cid)
        data == IF result # <<>> /\ result[1].data.t = "str" /\ result[1].data.v # <<>>
                THEN process_json_data(result[1].data)
                ELSE [ok |-> FALSE, val |-> Null]
    IN  IF data.ok /\ data.val.t = "dict" THEN with_metadata(data.val, result[1]) ELSE Null

\* save_form_data without a failure of the store
save_form_data(tbl, cid, form_data, t) ==
    IF sql_select(tbl, cid) # <<>> THEN sql_update(tbl, cid, json_data_of(form_data), t)
    ELSE sql_insert(tbl, cid, json_data_of(form_data), t)

\* the end of every script run that renders the form: the editors, then the
\* auto-save of lines 2658-2696.  keys are the lookup keys of the session.
\* The store is taken not to fail here: its failures are the subject of Spec.
script_run(ss, keys) ==
    /\ session_state' = ai_session_init(rendered(ss), keys.existing_data)
    /\ LET data_to_save == data_to_save_with_tables(keys.existing_data, rendered(ss))
           cid == keys.current_cid
       IN  table' = IF has_data(data_to_save) /\ ~cid_missing(cid)
                    THEN save_form_data(table, strip(cid), data_to_save, now)
                    ELSE table
    /\ UNCHANGED <<now, ws, connVars, faults, sanVars>>

----------------------------------------------------------------------------
(* The script runs of a browser session that works on the table sections.  *)
(* Every run of the whole script ends with script_run.                      *)

MaxRows == 3
MaxClock == 11
MaxTableOps == 4

\* what a script run shows: the button it handled and the section of the button
Shown(button, s, message, dialog) ==
    [button |-> button, section |-> s, message |-> message, dialog |-> dialog]

\* the form is on the screen and no dialog is open over it
FormShown == ui[1].cid_checked /\ shown.dialog = 0 /\ budget > 0

\* selected_idxs[0]
first_selected(idxs) == CHOOSE i \in idxs : \A j \in idxs : i <= j

\* lines 523-558 and the run they start: Vyhladat is clicked with cid in the field
lookup_clicked(cid) ==
    /\ budget > 0
    /\ shown.dialog = 0
    /\ budget' = budget - 1
    /\ ui' = [ui EXCEPT ![1] = lookup_state(load_form_data(table, strip(cid)), cid)]
    /\ LET reset == [session_state EXCEPT !.df["prijmy_domacnosti"] = Absent]
           ss == [reset EXCEPT
                     !.df = [s \in Sections |->
                                init_table(s, reset.df[s], ui'[1].existing_data, clock)],
                     !.id_counter = [s \in Sections |-> IF @[s] = 0 THEN 1 ELSE @[s]]]
       IN  script_run(ss, ui'[1])
    /\ shown' = Shown("lookup", "", "", 0)
    /\ UNCHANGED <<clock, generated>>

\* the page is opened in a new browser session: st.session_state starts empty
new_session ==
    /\ budget > 0
    /\ budget' = budget - 1
    /\ session_state' = FreshSession
    /\ generated' = [s \in Sections |-> <<>>]
    /\ ui' = [ui EXCEPT ![1] = NoLookup]
    /\ shown' = NoMessage
    /\ UNCHANGED <<table, now, ws, connVars, faults, sanVars, clock>>

\* what a cell of an editor can be set to
EditorInputs(col) == IF col = KeyVybrat THEN {Bool(TRUE), Bool(FALSE)} ELSE {Str(<<"b">>)}

\* the user changes the cell (i, col) of the data editor of section s: the
\* checkbox in any section, the data columns where they are not disabled
data_editor_change(s, i, col, value) ==
    /\ FormShown
    /\ budget' = budget - 1
    /\ i \in 1..Len(session_state.df[s].rows)
    /\ col = KeyVybrat \/ (s \in EditedSections /\ col = data_column(s))
    /\ IF s = "uvery_df"
       THEN /\ cell(session_state.df[s], i, col) # value
            \* lines 1877-1879: only the checkbox column is taken from the editor
            /\ LET edited == set_cell(display_df(s, session_state.df[s]), i, col, value)
                   ss == [session_state EXCEPT
                             !.df[s] = assign_column(@, KeyVybrat, series(edited, KeyVybrat))]
               IN  script_run(ss, ui[1])
       ELSE /\ cell(session_state.edited_data[s], i, col) # value
            /\ script_run([session_state EXCEPT !.edited_data[s] = set_cell(@, i, col, value)],
                          ui[1])
    /\ shown' = Shown("editor", s, "", 0)
    /\ UNCHANGED <<ui, clock, generated>>

\* add_new_prijem, add_new_exekucia and the rerun after them
add_new_row(s, t) ==
    /\ FormShown
    /\ s \in EditedSections
    /\ Len(session_state.df[s].rows) < MaxRows
    /\ t <= MaxClock
    /\ budget' = budget - 1
    /\ clock' = t
    /\ LET new_id == _generate_id(s, t, session_state.id_counter[s])
           new_row == Dict(<< <<KeyVybrat, Bool(FALSE)>>, <<KeyID, Str(new_id)>>,
                              <<data_column(s), Str(<<>>)>> >>)
           merged == merge_edits(session_state.df[s], session_state.edited_data[s])
           ss == [session_state EXCEPT !.df[s] = concat(merged, DataFrame(<<new_row>>)),
                                       !.id_counter[s] = @ + 1]
       IN  /\ script_run(ss, ui[1])
           /\ generated' = [generated EXCEPT ![s] = Append(@, [id |-> new_id, t |-> t])]
    /\ shown' = Shown("add", s, "", 0)
    /\ UNCHANGED ui

\* add_uver_dialog, submitted with kde_som_si_pozical in its field
add_uver_dialog(kde_som_si_pozical, t) ==
    LET s == "uvery_df"
    IN  /\ FormShown
        /\ Len(session_state.df[s].rows) < MaxRows
        /\ t <= MaxClock
        /\ budget' = budget - 1
        /\ IF strip(kde_som_si_pozical) = <<>>
           THEN \* st.error and return: the dialog stays, the script does not run
                /\ shown' = Shown("add", s, "error_required", 0)
                /\ UNCHANGED <<session_state, table, now, ws, connVars, faults, sanVars, clock, generated>>
           ELSE /\ clock' = t
                /\ LET new_id == _generate_id(s, t, session_state.id_counter[s])
                       new_row == Dict(<< <<KeyVybrat, Bool(FALSE)>>, <<KeyID, Str(new_id)>>,
                                          <<data_column(s), Str(strip(kde_som_si_pozical))>> >>)
                       ss == [session_state EXCEPT
                                 !.df[s] = concat(@, DataFrame(<<new_row>>)),
                                 !.id_counter[s] = @ + 1]
                   IN  /\ script_run(ss, ui[1])
                       /\ generated' = [generated EXCEPT
                                           ![s] = Append(@, [id |-> new_id, t |-> t])]
                /\ shown' = Shown("add", s, "", 0)
        /\ UNCHANGED ui

\* the table of section s after its delete button was handled, and the message
delete_clicked(s, df) ==
    LET idxs == selected_idxs(df)
    IN  IF ~has_column(df, KeyVybrat) THEN [df |-> df, message |-> "error"]
        ELSE IF single_selection(idxs) THEN [df |-> drop_row(df, first_selected(idxs)), message |-> ""]
        ELSE [df |-> df, message |-> selection_warning(idxs)]

\* "Zmazat vybrany" of section s is clicked
delete_selected(s) ==
    /\ FormShown
    /\ budget' = budget - 1
    /\ LET df == IF s \in EditedSections
                 THEN merge_edits(session_state.df[s], session_state.edited_data[s])
                 ELSE session_state.df[s]
           after == delete_clicked(s, df)
       IN  /\ script_run([session_state EXCEPT !.df[s] = after.df], ui[1])
           /\ shown' = Shown("delete", s, after.message, 0)
    /\ UNCHANGED <<ui, clock, generated>>

\* "Upravit vybrany" of the loans is clicked: the dialog opens on the selected row
edit_uver_clicked ==
    LET s == "uvery_df"
        idxs == selected_idxs(session_state.df[s])
    IN  /\ FormShown
        /\ budget' = budget - 1
        /\ shown' = IF ~has_column(session_state.df[s], KeyVybrat) THEN Shown("edit", s, "error", 0)
                    ELSE IF single_selection(idxs) THEN Shown("edit", s, "", first_selected(idxs))
                    ELSE Shown("edit", s, selection_warning(idxs), 0)
        /\ script_run(session_state, ui[1])
        /\ UNCHANGED <<ui, clock, generated>>

\* an edit that writes into the first row of the table
edit_uver_row_first(df, row_index, kde_som_si_pozical) ==
    set_cell(df, 1, data_column("uvery_df"), Str(strip(kde_som_si_pozical)))

\* lines 1786-1793: "Update the row"
edit_uver_row(df, row_index, kde_som_si_pozical) ==
    set_cell(df, row_index, data_column("uvery_df"), Str(strip(kde_som_si_pozical)))

\* edit_uver_dialog(row_index), submitted with kde_som_si_pozical in its field
edit_uver_dialog(kde_som_si_pozical) ==
    LET s == "uvery_df"
        row_index == shown.dialog
    IN  /\ shown.dialog # 0
        /\ budget > 0
        /\ budget' = budget - 1
        /\ IF row_index > Len(session_state.df[s].rows)
           THEN /\ shown' = Shown("edit_submit", s, "error", 0)
                /\ UNCHANGED <<session_state, table, now, ws, connVars, faults, sanVars>>
           ELSE IF strip(kde_som_si_pozical) = <<>>
           THEN \* st.warning and return: the dialog stays open
                /\ shown' = Shown("edit_submit", s, "warning_required", row_index)
                /\ UNCHANGED <<session_state, table, now, ws, connVars, faults, sanVars>>
           ELSE /\ script_run([session_state EXCEPT
                                  !.df[s] = edit_uver_row(@, row_index, kde_som_si_pozical)],
                              ui[1])
                /\ shown' = Shown("edit_submit", s, "", 0)
        /\ UNCHANGED <<ui, clock, generated>>

\* the dialog is left with "Zrusit"
edit_uver_cancel ==
    /\ shown.dialog # 0
    /\ budget > 0
    /\ budget' = budget - 1
    /\ script_run(session_state, ui[1])
    /\ shown' = Shown("edit_cancel", "uvery_df", "", 0)
    /\ UNCHANGED <<ui, clock, generated>>

----------------------------------------------------------------------------
(* app.py: the executions table of the form without a store.  Its rows     *)
(* carry "Číslo" where those of app_ws.py carry "ID".                       *)

app_columns == <<KeyVybrat, KeyCislo, data_column("exekucie_df")>>

\* lines 671-685: the table as a run of app.py finds it
app_exekucie_df(df) == IF df = Absent THEN Frame(app_columns, <<>>) ELSE df

\* f"č.{i+1}" for the row at index i
cislo(i) == Str(<<"c", ".">> \o int_text(i))

\* _renumber_exekucie_rows
_renumber_exekucie_rows(df) ==
    IF empty(df) THEN df
    ELSE assign_column(df, KeyCislo, [i \in 1..Len(df.rows) |-> cislo(i)])

\* lines 738-750: the editor's copy becomes the table and is renumbered
app_script_run(df) ==
    /\ session_state' = [session_state EXCEPT
                            !.app_exekucie_df = _renumber_exekucie_rows(reindex(df, app_columns, NaN))]
    /\ UNCHANGED <<table, now, ws, connVars, faults, sanVars, ui, clock, generated>>

\* app.py: "Pridat exekuciu"
app_add_exekucia ==
    LET df == app_exekucie_df(session_state.app_exekucie_df)
        new_row == Dict(<< <<KeyVybrat, Bool(FALSE)>>, <<KeyCislo, Str(<<>>)>>,
                           <<data_column("exekucie_df"), Str(<<>>)>> >>)
    IN  /\ budget > 0
        /\ Len(df.rows) < MaxRows
        /\ budget' = budget - 1
        /\ app_script_run(_renumber_exekucie_rows(concat(df, DataFrame(<<new_row>>))))
        /\ shown' = [shown EXCEPT !.button = "add", !.section = "app.exekucie_df", !.message = ""]

\* app.py: "Zmazat vybranu"
app_delete_exekucia ==
    LET df == app_exekucie_df(session_state.app_exekucie_df)
        idxs == selected_idxs(df)
    IN  /\ budget > 0
        /\ budget' = budget - 1
        /\ IF single_selection(idxs)
           THEN /\ app_script_run(_renumber_exekucie_rows(drop_row(df, first_selected(idxs))))
                /\ shown' = [shown EXCEPT !.button = "delete", !.section = "app.exekucie_df",
                                          !.message = ""]
           ELSE /\ app_script_run(df)
                /\ shown' = [shown EXCEPT !.button = "delete", !.section = "app.exekucie_df",
                                          !.message = selection_warning(idxs)]

\* app.py: a cell of the executions editor is changed
app_editor_change(i, col, value) ==
    LET df == app_exekucie_df(session_state.app_exekucie_df)
    IN  /\ budget > 0
        /\ budget' = budget - 1
        /\ i \in 1..Len(df.rows)
        /\ cell(df, i, col) # value
        /\ app_script_run(set_cell(df, i, col, value))
        /\ shown' = [shown EXCEPT !.button = "editor", !.section = "app.exekucie_df",
                                  !.message = ""]

----------------------------------------------------------------------------
(* Initial states and steps of the table sections *)

\* a record of an earlier version of the form: income rows without "Vybrať"
\* and "ID", an execution row numbered by app.py
RecordLegacy ==
    Dict(<< <<section_key("prijmy_domacnosti"),
              List(<<Dict(<< <<data_column("prijmy_domacnosti"), Str(<<"a">>)>> >>),
                     Dict(<< <<data_column("prijmy_domacnosti"), Str(<<"b">>)>> >>)>>)>>,
            <<section_key("exekucie_df"),
              List(<<Dict(<< <<KeyVybrat, Bool(FALSE)>>, <<KeyCislo, cislo(1)>>,
                             <<data_column("exekucie_df"), Str(<<"a">>)>> >>)>>)>> >>)

\* a record of an earlier session of app_ws.py: two loans added in one millisecond
RecordTwoLoans ==
    Dict(<< <<KeyEmail, Str(DefaultEmail)>>,
            <<section_key("prijmy_domacnosti"), List(<<>>)>>,
            <<section_key("uvery_df"),
              List(<<Dict(<< <<KeyVybrat, Bool(FALSE)>>,
                             <<KeyID, Str(<<"U", "V", "0", "9", "0", "0", "1">>)>>,
                             <<data_column("uvery_df"), Str(<<"a">>)>> >>),
                     Dict(<< <<KeyVybrat, Bool(FALSE)>>,
                             <<KeyID, Str(<<"U", "V", "0", "9", "0", "0", "2">>)>>,
                             <<data_column("uvery_df"), Str(<<"a">>)>> >>)>>)>>,
            <<section_key("exekucie_df"), List(<<>>)>> >>)

TableInitTables ==
    {<<>>,
     <<Row(CidA, Str(json_data_of(RecordLegacy)), 0)>>,
     <<Row(CidA, Str(json_data_of(RecordTwoLoans)), 0)>>}

\* what the field of a loan dialog may hold
LoanInputs == {<<>>, <<"a">>, <<SP, "b">>}

TableInit ==
    /\ SanOff
    /\ table \in TableInitTables
    /\ now = 0
    /\ ws = [w \in Sessions |-> IF w = 1 THEN IdleSession ELSE NoSession]
    /\ budget = MaxTableOps
    /\ faults = Unlimited
    /\ ui = [w \in Sessions |-> NoLookup]
    /\ TablesOff
    /\ ConnOff

TableNext ==
    \/ lookup_clicked(CidA)
    \/ new_session
    \/ \E s \in Sections, i \in 1..MaxRows :
           \E col \in {KeyVybrat, data_column(s)} : \E value \in EditorInputs(col) :
               data_editor_change(s, i, col, value)
    \/ \E s \in EditedSections, t \in {clock, clock + 1} :
           add_new_row(s, t)
    \/ \E kde_som_si_pozical \in LoanInputs, t \in {clock, clock + 1} :
           add_uver_dialog(kde_som_si_pozical, t)
    \/ \E s \in Sections : delete_selected(s)
    \/ edit_uver_clicked
    \/ \E kde_som_si_pozical \in LoanInputs :
           edit_uver_dialog(kde_som_si_pozical)
    \/ edit_uver_cancel

\* one browser session working on the table sections of one CID
TableSpec == TableInit /\ [][TableNext]_vars

MaxAppOps == 5

AppInit ==
    /\ SanOff
    /\ table = <<>>
    /\ now = 0
    /\ ws = [w \in Sessions |-> IF w = 1 THEN IdleSession ELSE NoSession]
    /\ budget = MaxAppOps
    /\ faults = Unlimited
    /\ ui = [w \in Sessions |-> NoLookup]
    /\ TablesOff
    /\ ConnOff

AppNext ==
    \/ app_add_exekucia
    \/ app_delete_exekucia
    \/ \E i \in 1..MaxRows : \E col \in {KeyVybrat, data_column("exekucie_df")} :
           \E value \in EditorInputs(col) : app_editor_change(i, col, value)

\* one browser session of app.py working on its executions table
AppSpec == AppInit /\ [][AppNext]_vars

----------------------------------------------------------------------------
(* app_ws.main: the AI section of the form.  The action plan is a text, the *)
(* conversation history a list of {"role": ..., "content": ...} messages.   *)

KeyRole == <<"r", "o">>
KeyContent == <<"c", "o">>
RoleUser == <<"u", "s", "e", "r">>
RoleAssistant == <<"a", "s", "s", "i", "s", "t", "a", "n", "t">>

Message(role, content) == Dict(<< <<KeyRole, Str(role)>>, <<KeyContent, Str(content)>> >>)

\* an AI call that raised: no API key, a status other than 200
Raised == <<"!">>

\* what an AI call gives: the stripped content of the reply, or an exception
AiReplies == {<<"r">>, Raised}

\* what the follow-up field may hold
FollowUpInputs == {<<>>, <<SP>>, <<"q">>}

\* lines 2502-2509: has_minimal_data, of which the form model has the rows
has_minimal_data(ss) == \E s \in Sections : section_records(ss, s) # <<>>

\* the plan a successful analysis writes (lines 2546, 2557, 2570)
GeneratedPlan == <<"p">>

\* line 2639: the follow-up and its answer appended to the plan
plan_with_follow_up(plan, follow_up_input, result) ==
    plan \o <<"|">> \o follow_up_input \o <<":">> \o result

\* line 2612: the question goes into the history before the AI is called
with_question(ss, follow_up_input) ==
    [ss EXCEPT !.ai_conversation_history =
                   List(Append(@.v, Message(RoleUser, follow_up_input)))]

\* lines 2633-2639: the answer goes into the history and into the plan
with_answer(ss, follow_up_input, result) ==
    [ss EXCEPT !.ai_conversation_history = List(Append(@.v, Message(RoleAssistant, result))),
               !.ai_action_plan = Str(plan_with_follow_up(@.v, follow_up_input, result))]

\* the AI section is on the screen with its buttons
AiShown == FormShown /\ has_minimal_data(session_state)

\* lines 2520-2582: "Generovat akcny plan" is clicked; on success the plan is
\* set and the script reruns, on an exception the run goes on to the auto-save
generate_plan_clicked(result) ==
    /\ AiShown
    /\ budget' = budget - 1
    /\ IF result = Raised
       THEN /\ script_run(session_state, ui[1])
            /\ shown' = Shown("generate", "", "error", 0)
       ELSE /\ script_run([session_state EXCEPT !.ai_action_plan = Str(GeneratedPlan)], ui[1])
            /\ shown' = Shown("generate", "", "", 0)
    /\ UNCHANGED <<ui, clock, generated>>

\* lines 2608-2646: "Odoslat pokracovanie" is clicked with follow_up_input in
\* the field; on success the script reruns, after the warning and after an
\* exception the run goes on to the auto-save, whose data_to_save holds the
\* list that the question was appended to
follow_up_clicked(follow_up_input, result) ==
    /\ AiShown
    /\ truthy(session_state.ai_action_plan)
    /\ budget' = budget - 1
    /\ IF strip(follow_up_input) = <<>>
       THEN /\ script_run(session_state, ui[1])
            /\ shown' = Shown("follow_up", "", "warning_empty", 0)
       ELSE IF result = Raised
       THEN /\ script_run(with_question(session_state, follow_up_input), ui[1])
            /\ shown' = Shown("follow_up", "", "error", 0)
       ELSE /\ script_run(with_answer(with_question(session_state, follow_up_input),
                                      follow_up_input, result),
                          ui[1])
            /\ shown' = Shown("follow_up", "", "", 0)
    /\ UNCHANGED <<ui, clock, generated>>

\* lines 2648-2654: "Resetovat konverzaciu" is clicked
reset_conversation_clicked ==
    /\ AiShown
    /\ truthy(session_state.ai_action_plan)
    /\ budget' = budget - 1
    /\ script_run([session_state EXCEPT !.ai_action_plan = Str(<<>>),
                                        !.ai_conversation_history = List(<<>>)],
                  ui[1])
    /\ shown' = Shown("reset", "", "", 0)
    /\ UNCHANGED <<ui, clock, generated>>

MaxAiOps == 4

\* the record of a client with two loans, an action plan and one answered
\* follow-up question
RecordPlanned ==
    Dict(RecordTwoLoans.v
         \o << <<KeyPlan, Str(<<"o">>)>>,
               <<KeyHistory, List(<<Message(RoleUser, <<"w">>),
                                    Message(RoleAssistant, <<"y">>)>>)>> >>)

\* the record of a client with one execution and no plan
RecordOther ==
    Dict(<< <<KeyEmail, Str(DefaultEmail)>>,
            <<section_key("exekucie_df"),
              List(<<Dict(<< <<KeyVybrat, Bool(FALSE)>>,
                             <<KeyID, Str(<<"E", "X", "0", "9", "0", "0", "1">>)>>,
                             <<data_column("exekucie_df"), Str(<<"c">>)>> >>)>>)>> >>)

AiInitTables ==
    {<<Row(CidA, Str(json_data_of(RecordPlanned)), 0)>>,
     <<Row(CidA, Str(json_data_of(RecordPlanned)), 0),
       Row(CidB, Str(json_data_of(RecordOther)), 0)>>}

AiInit ==
    /\ SanOff
    /\ table \in AiInitTables
    /\ now = 0
    /\ ws = [w \in Sessions |-> IF w = 1 THEN IdleSession ELSE NoSession]
    /\ budget = MaxAiOps
    /\ faults = Unlimited
    /\ ui = [w \in Sessions |-> NoLookup]
    /\ TablesOff
    /\ ConnOff

AiNext ==
    \/ \E cid \in {CidA, CidB} : lookup_clicked(cid)
    \/ new_session
    \/ \E result \in AiReplies : generate_plan_clicked(result)
    \/ \E follow_up_input \in FollowUpInputs, result \in AiReplies :
           follow_up_clicked(follow_up_input, result)
    \/ reset_conversation_clicked

\* one browser session looking up two CIDs and using the AI section
AiSpec == AiInit /\ [][AiNext]_vars

----------------------------------------------------------------------------
(* SnowflakeManager.get_session and the sessions it creates.  One manager   *)
(* runs one operation at a time through execute_with_retry; a Session is a  *)
(* positive number, and it is open at the server while it is in live.  No   *)
(* line of the manager closes a session.                                    *)

\* self.connection_timeout = 1800 seconds, in units of ten minutes
connection_timeout == 3

MaxWall == 4
MaxSessions == 3
MaxConnOps == 2

\* lines 54-56: a session is cached and was used less than connection_timeout ago
cached_and_recent(r, current_time) ==
    /\ r.session
    /\ r.last_activity # 0 - 1
    /\ current_time - r.last_activity < connection_timeout

\* lines 59-61: the cached session passed _is_session_alive and is returned
reuse_session(r, current_time) ==
    [r EXCEPT !.last_activity = current_time, !.used = r.handle, !.fresh = FALSE,
              !.pc = "statement"]

\* lines 64-66 with a session made by _create_session
create_session(r, current_time) ==
    [r EXCEPT !.session = TRUE, !.handle = r.created + 1, !.created = @ + 1,
              !.last_activity = current_time, !.used = r.created + 1, !.fresh = TRUE,
              !.pc = "statement"]

\* the except branch of execute_with_retry, and where the manager goes on
attempt_failed(r, session, e) ==
    LET x == execute_with_retry([r EXCEPT !.failed = session], e)
    IN  [x EXCEPT !.pc = IF x.outcome = "running" THEN "get_session" ELSE "idle"]

\* lines 64-66 and 82-84: _create_session returned None, get_session_context raises
no_session(r) ==
    attempt_failed([r EXCEPT !.session = FALSE, !.last_activity = 0 - 1, !.used = 0,
                             !.fresh = FALSE],
                   0, SessionUnavailable)

\* a caller starts an operation: execute_with_retry(operation_func)
call_operation ==
    /\ conn.pc = "idle"
    /\ budget > 0
    /\ budget' = budget - 1
    /\ conn' = [conn EXCEPT !.pc = "get_session", !.outcome = "none", !.used = 0,
                            !.fresh = FALSE, !.failed = 0]
    /\ UNCHANGED <<live, wall, table, now, ws, faults, sanVars, formVars, tableVars>>

\* an attempt begins: operation_func enters get_session_context, get_session
\* returns the cached session, a new one, or None
get_session ==
    /\ conn.pc = "get_session"
    /\ LET r == begin_retry_loop(conn)
           current_time == wall
           recent == cached_and_recent(r, current_time)
       IN  \/ \* _is_session_alive: the test query succeeded
              /\ recent
              /\ r.handle \in live
              /\ conn' = reuse_session(r, current_time)
              /\ live' = live
           \/ \* no recent session, or the test query failed (also on a session
              \* that is open): _create_session makes a new one
              /\ r.created < MaxSessions
              /\ conn' = create_session(r, current_time)
              /\ live' = live \cup {r.created + 1}
           \/ \* as before, and _create_session fails
              /\ conn' = no_session(r)
              /\ live' = live
    /\ UNCHANGED <<wall, table, now, ws, budget, faults, sanVars, formVars, tableVars>>

\* the errors of a statement
StatementErrors == {RequestTimeout, ConnectionReset, CompilationError}

\* the statement of the operation runs on the session get_session returned
run_statement ==
    /\ conn.pc = "statement"
    /\ \/ /\ conn.used \in live
          /\ conn' = [conn EXCEPT !.outcome = "returned", !.pc = "idle"]
          /\ live' = live
       \/ \E e \in StatementErrors :
             /\ conn' = attempt_failed(conn, conn.used, e)
             \* the failure may have ended the session or not
             /\ live' \in {live, live \ {conn.used}}
             /\ (conn.used \notin live) => e = ConnectionReset
    /\ UNCHANGED <<wall, table, now, ws, budget, faults, sanVars, formVars, tableVars>>

\* ten minutes pass
tick ==
    /\ wall < MaxWall
    /\ wall' = wall + 1
    /\ UNCHANGED <<conn, live, table, now, ws, budget, faults, sanVars, formVars, tableVars>>

\* the server ends a session
session_ends ==
    /\ \E h \in live : live' = live \ {h}
    /\ UNCHANGED <<conn, wall, table, now, ws, budget, faults, sanVars, formVars, tableVars>>

SessInit ==
    /\ SanOff
    /\ table = <<>>
    /\ now = 0
    /\ ws = [w \in Sessions |-> NoSession]
    /\ budget = MaxConnOps
    /\ faults = 0
    /\ ui = [w \in Sessions |-> NoLookup]
    /\ TablesOff
    /\ ConnOff

SessNext ==
    \/ call_operation
    \/ get_session
    \/ run_statement
    \/ tick
    \/ session_ends

SessSpec == SessInit /\ [][SessNext]_vars

----------------------------------------------------------------------------
(* Claims about the sanitizer *)

\* C1: no string produced by sanitize_form_data (top-level value, list
\* element, value of a row record in a list) contains a C0 control character
\* or DEL, nor a double or single quote, ASCII or curly.
C1_NoControlNoQuote ==
    san_pc # "in" =>
        \A s \in StringLeaves(san_out) : Chars(s) \cap (C0AndDel \cup QuoteChars) = {}

\* C2: sanitize_form_data is idempotent: sanitizing the sanitized record
\* gives the sanitized record.
C2_Idempotent == san_pc = "twice" => san_out2 = san_out

----------------------------------------------------------------------------
(* Claims about save_form_data and auto_save_data *)

\* the stored DATA texts of a CID
stored_texts(cid) ==
    LET rows == sql_select(table, cid)
    IN  {rows[i].data.v : i \in {n \in 1..Len(rows) : rows[n].data.t = "str"}}

\* session w finished an auto-save that reported success
SaveDone(w) ==
    ws[w].kind = "auto_save" /\ ws[w].pc = "done" /\ ws[w].result \in {"created", "updated"}

\* a value with every date leaf replaced by its str() text
RECURSIVE dates_as_text(_)
dates_as_text(value) ==
    CASE value.t = "date" -> Str(value.v)
      [] value.t = "list" -> List([i \in 1..Len(value.v) |-> dates_as_text(value.v[i])])
      [] value.t = "dict" ->
             Dict([i \in 1..Len(value.v) |-> <<value.v[i][1], dates_as_text(value.v[i][2])>>])
      [] OTHER -> value

\* C3 as stated: after a successful save(cid, r) the DATA stored for cid is
\* valid JSON and parsing it yields exactly sanitize(r), for every record of
\* text, number, boolean and date scalars and lists of row records.
C3_StoredParsesToSanitized ==
    \A w \in Sessions :
        SaveDone(w) =>
            /\ stored_texts(ws[w].cid) # {}
            /\ \A text \in stored_texts(ws[w].cid) :
                   /\ json_loads(text).ok
                   /\ json_loads(text).val = sanitize_form_data(ws[w].data)

\* C3 amended: after a successful save(cid, r) the DATA stored for cid is
\* valid JSON and parsing it yields sanitize(r) with every date leaf replaced
\* by the text str() gives it; text, numbers, booleans, nulls and lists of row
\* records come back exactly as sanitize(r) has them.
C3_StoredParsesToSanitizedDatesAsText ==
    \A w \in Sessions :
        SaveDone(w) =>
            /\ stored_texts(ws[w].cid) # {}
            /\ \A text \in stored_texts(ws[w].cid) :
                   /\ json_loads(text).ok
                   /\ json_loads(text).val = dates_as_text(sanitize_form_data(ws[w].data))

\* a name with double quotes and a newline was saved, and the stored DATA
\* parses to the name without the quotes, the newline collapsed to one space
C3_QuotedNameStored ==
    \E w \in Sessions :
        /\ SaveDone(w)
        /\ ws[w].data = RecordQuoted
        /\ \E text \in stored_texts(ws[w].cid) :
               json_loads(text).val = Dict(<< <<KeyName, Str(<<"J", SP, "T", SP, "N">>)>> >>)

\* a record with a date was saved
C3_DateStored ==
    \E w \in Sessions : SaveDone(w) /\ ws[w].data = RecordRows

\* C4: in every state reached by the saves and repairs of one session the
\* table holds at most one row per CID, a CID that has a row keeps exactly one
\* row, and a CID saved successfully has exactly one row; this includes a save
\* whose INSERT took effect while its reply was lost to a transient error.
C4_OneRowPerCid ==
    /\ [](\A i, j \in 1..Len(table) : table[i].cid = table[j].cid => i = j)
    /\ [](\A w \in Sessions : SaveDone(w) => Len(sql_select(table, ws[w].cid)) = 1)
    /\ [][\A i \in 1..Len(table) :
              Len(sql_select(table', table[i].cid)) = 1]_vars

\* a save of a new CID succeeded on a retry: the first attempt's INSERT took
\* effect, its reply was lost, and the retried attempt found the row
C4_RetriedInsertUpdated ==
    \E w \in Sessions :
        /\ SaveDone(w)
        /\ ~ws[w].pre_exists
        /\ ws[w].attempt >= 1
        /\ ws[w].exists
        /\ Len(sql_select(table, ws[w].cid)) = 1

\* C5: a successful save reports "created" exactly when no row of the CID
\* existed before it and "updated" exactly when one did, whatever that
\* row's DATA holds; and the row is there afterwards.
C5_OutcomeMatchesExistence ==
    \A w \in Sessions :
        SaveDone(w) =>
            /\ (ws[w].result = "updated") <=> ws[w].pre_exists
            /\ sql_select(table, ws[w].cid) # <<>>

\* C6: an auto-save whose CID is empty or only whitespace ends with the
\* invalid outcome at once: no statement went to the store, the operation
\* was never invoked through execute_with_retry, nothing was retried.
C6_BlankCidRejected ==
    \A w \in Sessions :
        (ws[w].kind = "auto_save" /\ \A i \in 1..Len(ws[w].cid_in) : ws[w].cid_in[i] \in Whitespace)
            => /\ ws[w].pc = "done"
               /\ ws[w].result = "invalid"
               /\ ~ws[w].touched
               /\ ws[w].calls = 0
               /\ ws[w].delays = 0

\* an auto-save with a CID of one space was rejected
C6_WhitespaceCidRejected ==
    \E w \in Sessions :
        ws[w].kind = "auto_save" /\ ws[w].cid_in = <<SP>> /\ ws[w].result = "invalid"

\* C7: when two sessions have saved the same CID, their checks and writes
\* interleaved in any order, the table holds exactly one row of the CID and
\* its DATA is the serialized sanitized record of one of the two saves.
C7_ConcurrentSavesOneRow ==
    \A w1, w2 \in Sessions :
        (w1 # w2 /\ SaveDone(w1) /\ SaveDone(w2) /\ ws[w1].cid = ws[w2].cid)
            => /\ Len(sql_select(table, ws[w1].cid)) = 1
               /\ stored_texts(ws[w1].cid)
                      \subseteq {json_data_of(ws[w1].data), json_data_of(ws[w2].data)}

----------------------------------------------------------------------------
(* Claims about execute_with_retry *)

\* the lower-cased error text holds the word
HasWord(e, word) == contains(lower(e), word)

\* the step from a to b of one session is an attempt that execute_with_retry saw fail
FailedAttempt(a, b) ==
    /\ a # b
    /\ \/ a.outcome = "running" /\ b.fails = a.fails + 1
       \/ a.outcome # "running" /\ a.pc \in {"load", "save_select", "fix_select"} /\ b.fails = 1

\* the lower-cased error text holds one of the three words of line 99
TransientText(e) ==
    LET error_msg == lower(e)
    IN  \/ contains(error_msg, WordConnection)
        \/ contains(error_msg, WordTimeout)
        \/ contains(error_msg, WordSession)

\* attempts and delays of the running execute_with_retry before the step
AttemptsBefore(a) == IF a.outcome = "running" THEN a.attempt ELSE 0
DelaysBefore(a) == IF a.outcome = "running" THEN a.delays ELSE 0

\* C8 as stated: another attempt is started only after a failure whose error
\* text contains "connection" or "timeout"; a failure with any other text
\* ends the operation with no retry and no delay.
C8_RetryOnlyConnectionOrTimeout ==
    [][\A w \in Sessions :
          LET a == ws[w]
              b == ws'[w]
          IN  FailedAttempt(a, b) =>
                  /\ b.outcome = "running" =>
                         HasWord(b.err, WordConnection) \/ HasWord(b.err, WordTimeout)
                  /\ ~(HasWord(b.err, WordConnection) \/ HasWord(b.err, WordTimeout)) =>
                         /\ b.outcome = "raised"
                         /\ b.delays = DelaysBefore(a)
                         /\ b.attempt = AttemptsBefore(a)]_vars

\* C8 amended: after a failed attempt execute_with_retry starts another one
\* exactly when the lower-cased error text contains "connection", "timeout"
\* or "session" and fewer than max_retries - 1 retries were made; it then drops
\* the session and sleeps once. After any other failure it raises at that
\* attempt, with no retry and no delay.
C8_RetryOnTransientText ==
    [][\A w \in Sessions :
          LET a == ws[w]
              b == ws'[w]
          IN  FailedAttempt(a, b) =>
                  IF TransientText(b.err) /\ AttemptsBefore(a) < max_retries - 1
                  THEN /\ b.outcome = "running"
                       /\ b.attempt = AttemptsBefore(a) + 1
                       /\ b.delays = DelaysBefore(a) + 1
                       /\ ~b.session
                  ELSE /\ b.outcome = "raised"
                       /\ b.attempt = AttemptsBefore(a)
                       /\ b.delays = DelaysBefore(a)]_vars

\* an attempt was retried after "Unable to establish database session"
C8_RetriedOnSessionText ==
    \E w \in Sessions :
        ws[w].outcome = "running" /\ ws[w].attempt >= 1 /\ ws[w].err = SessionUnavailable

\* how far the running execute_with_retry of a session is: two steps an attempt
Progress(r) == 2 * r.attempt + (IF r.pc \in {"save_write", "fix_write"} THEN 1 ELSE 0)

\* C9: an operation run through execute_with_retry is invoked at most
\* max_retries = 3 times, and when it raises on a transient error it does so
\* after the third invocation; and it always finishes: a started operation can
\* always take its next step, and each step of a running execute_with_retry
\* either ends it (it returns or raises) or moves it forward on a measure that
\* never exceeds 2 * max_retries - 1, so no run of it has more than
\* 2 * max_retries steps.
C9_BoundedAttempts ==
    /\ [](\A w \in Sessions :
              /\ ws[w].calls <= max_retries
              /\ Progress(ws[w]) <= 2 * max_retries - 1
              /\ (ws[w].outcome = "raised" /\ TransientText(ws[w].err))
                     => ws[w].calls = max_retries
              /\ ws[w].pc \in {"load", "save_select", "save_write", "fix_select", "fix_write"}
                     => ENABLED Attempt(w))
    /\ [][\A w \in Sessions :
              LET a == ws[w]
                  b == ws'[w]
              IN  (a.outcome = "running" /\ a # b) =>
                      \/ b.outcome \in {"returned", "raised"}
                      \/ b.outcome = "running" /\ Progress(b) > Progress(a)]_vars

\* every one of the three attempts failed with a transient error
C9_ThreeAttemptsFailed ==
    \E w \in Sessions :
        /\ ws[w].outcome = "raised"
        /\ ws[w].calls = max_retries
        /\ ws[w].fails = max_retries
        /\ TransientText(ws[w].err)

----------------------------------------------------------------------------
(* Claims about fix_corrupted_record *)

\* the CID has no row, or its DATA fails the direct parse and the parse after
\* clean_json_data_advanced
Unrecoverable(tbl, cid) ==
    LET rows == sql_select(tbl, cid)
    IN  \/ rows = <<>>
        \/ /\ rows[1].data.t = "str"
           /\ ~json_loads(rows[1].data.v).ok
           /\ ~json_loads(clean_json_data_advanced(rows[1].data.v)).ok

\* C10: a repair of a CID that has no row, or whose DATA fails both parses,
\* leaves the table as it was at every step and returns false.
C10_UnrecoverableLeftAlone ==
    [][\A w \in Sessions :
          LET a == ws[w]
              b == ws'[w]
          IN  (a # b /\ b.kind = "repair" /\ Unrecoverable(table, b.cid)) =>
                  /\ table' = table
                  /\ b.pc = "done" => b.result = "false"]_vars

\* a repair read a row whose DATA fails both parses and returned false
C10_TruncatedLeftAlone ==
    \E w \in Sessions :
        /\ ws[w].kind = "repair"
        /\ ws[w].pc = "done"
        /\ ws[w].outcome = "returned"
        /\ ws[w].result = "false"
        /\ sql_select(table, ws[w].cid) # <<>>
        /\ Unrecoverable(table, ws[w].cid)

\* the text with every raw newline, tab and carriage return that sits inside a
\* string literal replaced by one space
RECURSIVE spaces_in_strings(_, _, _, _)
spaces_in_strings(s, i, inside, escaped) ==
    IF i > Len(s) THEN <<>>
    ELSE LET c == s[i]
         IN  IF ~inside THEN <<c>> \o spaces_in_strings(s, i + 1, c = DQ, FALSE)
             ELSE IF escaped THEN <<c>> \o spaces_in_strings(s, i + 1, TRUE, FALSE)
             ELSE IF c = BSL THEN <<c>> \o spaces_in_strings(s, i + 1, TRUE, TRUE)
             ELSE IF c = DQ THEN <<c>> \o spaces_in_strings(s, i + 1, FALSE, FALSE)
             ELSE IF c \in {LF, TAB, CR} THEN <<SP>> \o spaces_in_strings(s, i + 1, TRUE, FALSE)
             ELSE <<c>> \o spaces_in_strings(s, i + 1, TRUE, FALSE)

\* the text is a JSON object made invalid only by raw newlines, tabs and
\* carriage returns inside its string values
BrokenInStringsOnly(text) ==
    /\ ~json_loads(text).ok
    /\ json_loads(spaces_in_strings(text, 1, FALSE, FALSE)).ok
    /\ json_loads(spaces_in_strings(text, 1, FALSE, FALSE)).val.t = "dict"

\* the step from a to b of one session ends a repair whose statements all went
\* through: fix_corrupted_record returned what _fix_operation returned
RepairReturns(a, b) ==
    /\ b.kind = "repair"
    /\ a.pc \in {"fix_select", "fix_write"}
    /\ b.pc = "done"
    /\ b.outcome = "returned"
    /\ ~(a.pc = "fix_write" /\ b.result = "false")

\* C11 as stated: a repair of a CID whose DATA is made invalid only by raw
\* newlines, tabs or carriage returns inside string values returns true, and
\* afterwards the DATA parses directly to the document with each such
\* character replaced by one space.
C11_RawControlRepaired ==
    [][\A w \in Sessions :
          LET a == ws[w]
              b == ws'[w]
              before == sql_select(table, b.cid)
              after == sql_select(table', b.cid)
          IN  (/\ RepairReturns(a, b)
               /\ before # <<>>
               /\ before[1].data.t = "str"
               /\ BrokenInStringsOnly(before[1].data.v))
                  => /\ b.result = "true"
                     /\ json_loads(after[1].data.v).ok
                     /\ json_loads(after[1].data.v).val
                            = json_loads(spaces_in_strings(before[1].data.v, 1, FALSE, FALSE)).val]_vars

\* C11 amended: when, besides, no newline, tab or carriage return stands
\* between the tokens of the document, the repair returns true and afterwards
\* the DATA parses directly to the sanitized record: the record read with each
\* such character as itself, then passed through sanitize_form_data (in a
\* top-level string and in a string of a list each run of such characters and
\* spaces is one space, none at the ends).
C11_RawControlInStringsRepaired ==
    [][\A w \in Sessions :
          LET a == ws[w]
              b == ws'[w]
              before == sql_select(table, b.cid)
              after == sql_select(table', b.cid)
          IN  (/\ RepairReturns(a, b)
               /\ before # <<>>
               /\ before[1].data.t = "str"
               /\ BrokenInStringsOnly(before[1].data.v)
               /\ Chars(spaces_in_strings(before[1].data.v, 1, FALSE, FALSE)) \cap {LF, TAB, CR} = {})
                  => /\ b.result = "true"
                     /\ json_loads(after[1].data.v).ok
                     /\ json_loads(after[1].data.v).val
                            = sanitize_form_data(
                                  json_loads(clean_json_data_advanced(before[1].data.v)).val)]_vars

\* the record {"m": "a<LF>b"} was repaired: it now parses to {"m": "a b"}
C11_NewlineRepaired ==
    \E w \in Sessions :
        /\ ws[w].kind = "repair"
        /\ ws[w].pc = "done"
        /\ ws[w].result = "true"
        /\ ws[w].via_fallback
        /\ stored_texts(ws[w].cid) # {}
        /\ \A text \in stored_texts(ws[w].cid) :
               json_loads(text).val = Dict(<< <<KeyName, Str(<<"a", SP, "b">>)>> >>)

\* C12: a repair of a CID whose DATA a successful save wrote returns true and
\* the field values parsed from DATA after it equal those parsed before it.
C12_RepairKeepsSavedValues ==
    [][\A w \in Sessions :
          LET a == ws[w]
              b == ws'[w]
              before == sql_select(table, b.cid)
              after == sql_select(table', b.cid)
          IN  (/\ RepairReturns(a, b)
               /\ before # <<>>
               /\ before[1].data.t = "str"
               /\ \E r \in SaveInputs : before[1].data.v = json_data_of(r))
                  => /\ b.result = "true"
                     /\ json_loads(after[1].data.v).val = json_loads(before[1].data.v).val]_vars

----------------------------------------------------------------------------
(* Claims about the CID lookup *)

\* the column value holds text that fails the direct parse and the parse after
\* clean_json_data_advanced
Unreadable(data) ==
    /\ data.t = "str"
    /\ data.v # <<>>
    /\ ~json_loads(data.v).ok
    /\ ~json_loads(clean_json_data_advanced(data.v)).ok

\* C13: the stored DATA of a row that cannot be parsed changes only through a
\* successful repair; no auto-save that follows from rendering the form after
\* a lookup overwrites it.
C13_UnreadableChangedByRepairOnly ==
    [][\A i \in 1..Len(table) :
          (Unreadable(table[i].data) /\ sql_select(table', table[i].cid) # <<table[i]>>)
              => \E w \in Sessions : ws[w].kind = "repair" /\ ws'[w].result = "true"]_vars

\* C14: when a lookup finds a row of the CID whose DATA is unreadable, the
\* script run of the lookup leaves needs_fix true (the Fix This CID button is
\* offered) and does not present the CID as a new form.
C14_UnreadableNeedsFix ==
    [][\A w \in Sessions :
          LET rows == sql_select(table, ws[w].cid)
          IN  (/\ ws[w].pc = "lookup_done"
               /\ ws'[w].pc # "lookup_done"
               /\ rows # <<>>
               /\ Unreadable(rows[1].data))
                  => ui'[w].needs_fix /\ ui'[w].cid_checked]_vars

----------------------------------------------------------------------------
(* Claims about the table sections *)

\* the records without the one at position i
rows_without(records, i) == SubSeq(records, 1, i - 1) \o SubSeq(records, i + 1, Len(records))

\* the record is flagged selected
is_selected(record) == dict_get(record.v, KeyVybrat, Null) = Bool(TRUE)

\* the rows of the executions table of app.py
app_records(ss) == to_dict(app_exekucie_df(ss.app_exekucie_df))

\* C15: when a delete button is handled with a single row selected, the rows
\* of the section afterwards are the rows before without the selected one:
\* every other row is still there with the same label (ID in app_ws.py,
\* "Číslo" in app.py), the same values and in the same order.
C15_DeleteRemovesOnlySelected ==
    [][LET deleted(s) == shown'.button = "delete" /\ shown'.section = s /\ shown'.message = ""
           one_less(before, after) ==
               \E i \in 1..Len(before) :
                   is_selected(before[i]) /\ after = rows_without(before, i)
       IN  /\ \A s \in Sections :
                 deleted(s) => one_less(section_records(session_state, s),
                                        section_records(session_state', s))
           /\ deleted("app.exekucie_df")
                 => one_less(app_records(session_state), app_records(session_state'))]_vars

\* C16: when the loan dialog is submitted for the single selected row, the
\* loans afterwards are the loans before except for the data fields of that
\* row: it keeps its ID, its checkbox and its position, and every other row
\* is as it was.
C16_EditOverwritesSelectedRowOnly ==
    [][(shown'.button = "edit_submit" /\ shown'.message = "")
          => LET before == session_state.df["uvery_df"]
                 after == session_state'.df["uvery_df"]
             IN  /\ selected_idxs(before) = {shown.dialog}
                 /\ after.columns = before.columns
                 /\ Len(after.rows) = Len(before.rows)
                 /\ \A k \in 1..Len(before.rows) : \A col \in {KeyVybrat, KeyID, data_column("uvery_df")} :
                        (k # shown.dialog \/ col # data_column("uvery_df"))
                            => cell(after, k, col) = cell(before, k, col)]_vars

\* the second of two loans was edited from "a" to "b"
C16_SecondLoanEdited ==
    /\ shown.button = "edit_submit"
    /\ shown.message = ""
    /\ Len(session_state.df["uvery_df"].rows) = 2
    /\ cell(session_state.df["uvery_df"], 1, data_column("uvery_df")) = Str(<<"a">>)
    /\ cell(session_state.df["uvery_df"], 2, data_column("uvery_df")) = Str(<<"b">>)

\* C17: the IDs generated for a section in one browser session are pairwise
\* distinct, also when generated in the same millisecond; the counter of the
\* section grows by one with every generated ID and gets smaller only when a
\* new browser session starts.
C17_GeneratedIdsDistinct ==
    /\ [](\A s \in Sections : \A i, j \in 1..Len(generated[s]) :
              i # j => generated[s][i].id # generated[s][j].id)
    /\ [][\A s \in Sections :
              /\ Len(generated'[s]) > Len(generated[s])
                    => session_state'.id_counter[s] = session_state.id_counter[s] + 1
              /\ session_state'.id_counter[s] < session_state.id_counter[s]
                    => session_state' = FreshSession]_vars

\* two IDs of one section were generated in the same millisecond
C17_TwoIdsInOneMillisecond ==
    \E s \in Sections : \E i, j \in 1..Len(generated[s]) :
        i < j /\ generated[s][i].t = generated[s][j].t

\* C18: in every state every row of every section has an ID that is a
\* non-empty text, and no two rows of a section have the same ID; this
\* includes the tables made from stored rows that have no "ID".
C18_RowIdsNonEmptyUnique ==
    \A s \in Sections :
        LET rows == section_records(session_state, s)
            id(i) == dict_get(rows[i].v, KeyID, Null)
        IN  /\ \A i \in 1..Len(rows) : id(i).t = "str" /\ id(i).v # <<>>
            /\ \A i, j \in 1..Len(rows) : i # j => id(i) # id(j)

\* the indexes of the records that are flagged selected
selected_records(records) == {i \in 1..Len(records) : is_selected(records[i])}

\* C19: when a delete button, or the edit button of the loans, is handled
\* while no row or more than one row of the section is flagged, the run shows
\* one of the two warnings, no error and no dialog, and the rows of the
\* section are the rows before the click.
C19_NoSingleSelectionNoChange ==
    [][\A s \in Sections :
          (/\ shown'.button \in {"delete", "edit"}
           /\ shown'.section = s
           /\ Cardinality(selected_records(section_records(session_state, s))) # 1)
              => /\ shown'.message = selection_warning(selected_records(section_records(session_state, s)))
                 /\ shown'.dialog = 0
                 /\ section_records(session_state', s) = section_records(session_state, s)]_vars

\* a delete was clicked with two rows flagged, and both rows are still there
C19_ManySelectedWarned ==
    /\ shown.button = "delete"
    /\ shown.message = "warning_many"
    /\ shown.section \in Sections
    /\ Cardinality(selected_records(section_records(session_state, shown.section))) > 1

\* C20: when a lookup makes the table of a section from the stored record,
\* no row of the table is flagged selected.
C20_LoadedRowsUnselected ==
    [][\A s \in Sections :
          (/\ shown'.button = "lookup"
           /\ ui'[1].cid_exists
           /\ s = "prijmy_domacnosti" \/ session_state.df[s] = Absent)
              => selected_records(section_records(session_state', s)) = {}]_vars

----------------------------------------------------------------------------
(* Claims about the rows of SLSP_DEMO *)

\* session w is at the UPDATE or INSERT of a save or at the UPDATE of a repair
Writing(w) == ws[w].pc \in {"save_write", "fix_write"}

\* C21: a save or repair of a session never removes a row and never changes the CID,
\* CREATED_AT or PHASE of a row (no caller supplies a phase); the only row it
\* changes is the row of the CID it was called with, in DATA and LAST_UPDATED;
\* and it adds a row only for a CID that had none.
C21_SaveChangesDataAndLastUpdatedOnly ==
    [][LET kept(i) ==
               /\ table'[i].cid = table[i].cid
               /\ table'[i].created_at = table[i].created_at
               /\ table'[i].phase = table[i].phase
               /\ table'[i] # table[i] =>
                      \E w \in Sessions : Writing(w) /\ ws[w].cid = table[i].cid
           added(i) == sql_select(table, table'[i].cid) = <<>>
       IN  /\ Len(table') >= Len(table)
           /\ \A i \in 1..Len(table) : kept(i)
           /\ \A i \in (Len(table) + 1)..Len(table') : added(i)]_vars

\* a save on an existing CID finished beside the row of another CID: the row
\* of the saved CID has a later LAST_UPDATED than its CREATED_AT
C21_ExistingRowUpdated ==
    \E w \in Sessions :
        /\ SaveDone(w)
        /\ ws[w].pre_exists
        /\ Len(table) = 2
        /\ \E i \in 1..Len(table) :
               table[i].cid = ws[w].cid /\ table[i].last_updated > table[i].created_at

----------------------------------------------------------------------------
(* Claims about the sanitizer on nested records *)

\* b has the structure of a: the same keys in the same order, lists of the
\* same length, a string where a has a string, and every other leaf equal
RECURSIVE same_shape(_, _)
same_shape(a, b) ==
    CASE a.t = "str" -> b.t = "str"
      [] a.t = "list" ->
             /\ b.t = "list"
             /\ Len(b.v) = Len(a.v)
             /\ \A i \in 1..Len(a.v) : same_shape(a.v[i], b.v[i])
      [] a.t = "dict" ->
             /\ b.t = "dict"
             /\ Len(b.v) = Len(a.v)
             /\ \A i \in 1..Len(a.v) :
                    b.v[i][1] = a.v[i][1] /\ same_shape(a.v[i][2], b.v[i][2])
      [] OTHER -> b = a

\* C22: sanitize_form_data returns a record with the keys of its input in
\* their order, lists of the same length and element order, and every number,
\* boolean, date and None equal to the input's; it returns one for every record.
C22_SameShapeAndLeaves ==
    /\ san_pc # "in" => same_shape(san_in, san_out)
    /\ san_pc = "twice" => same_shape(san_out, san_out2)

\* a record with a list of a number and a row record was sanitized, and the
\* row record's text was changed
C22_ListOfNumberAndRowSanitized ==
    /\ san_pc = "once"
    /\ san_in = Dict(<< <<KeyK, List(<<Num(1), Dict(<< <<KeyID, Str(DirtyText)>> >>)>>)>>,
                        <<KeyID, Bool(TRUE)>> >>)
    /\ san_out # san_in

\* the value with every string leaf cleaned, at any depth
RECURSIVE cleaned_everywhere(_)
cleaned_everywhere(value) ==
    CASE value.t = "str" -> Str(sanitized_value(value.v))
      [] value.t = "list" -> List([i \in 1..Len(value.v) |-> cleaned_everywhere(value.v[i])])
      [] value.t = "dict" ->
             Dict([i \in 1..Len(value.v) |->
                     <<value.v[i][1], cleaned_everywhere(value.v[i][2])>>])
      [] OTHER -> value

\* C23: sanitize_form_data cleans every string leaf wherever it is nested:
\* direct values, strings in lists, strings in mappings that are list
\* elements, strings in a mapping that is the value of a key, strings in a
\* list nested in a list.
C23_EveryStringCleaned == san_pc # "in" => san_out = cleaned_everywhere(san_in)

----------------------------------------------------------------------------
(* Claims about the editor's copy of a table section *)

\* C24: whenever a script run has ended, the copy the data editor returned
\* for a section has as many rows as the section's table, and the row set
\* accepted from it (by the merge before an add or a delete of the next run,
\* and by the data assembled for the save of this run) has an "ID" column
\* whose value in row i is the ID of row i of the table, never a missing
\* value (NaN); an ID the table holds is carried as the table holds it.
C24_EditedRowsCarryTableIds ==
    \A s \in EditedSections :
        LET df == session_state.df[s]
            edited_data == session_state.edited_data[s]
            accepted == merge_edits(df, edited_data)
        IN  (df # Absent /\ edited_data # Absent) =>
                /\ Len(edited_data.rows) = Len(df.rows)
                /\ ~has_column(edited_data, KeyID)
                /\ has_column(accepted, KeyID)
                /\ Len(accepted.rows) = Len(df.rows)
                /\ \A i \in 1..Len(df.rows) :
                       /\ cell(accepted, i, KeyID) = cell(df, i, KeyID)
                       /\ cell(accepted, i, KeyID) # NaN
                /\ section_records(session_state, s) = to_dict(accepted)

\* the editor's copy of a table of two rows or more, each with an ID of its
\* own, differs from the table in a cell the user changed
C24_EditedCopyDiffers ==
    \E s \in EditedSections :
        LET df == session_state.df[s]
            edited_data == session_state.edited_data[s]
        IN  /\ df # Absent
            /\ edited_data # Absent
            /\ Len(df.rows) >= 2
            /\ edited_data # display_df(s, df)
            /\ \A i, j \in 1..Len(df.rows) :
                   /\ cell(df, i, KeyID) # Str(<<>>)
                   /\ cell(df, i, KeyID) = cell(df, j, KeyID) => i = j

----------------------------------------------------------------------------
(* Claims about the manager's session *)

\* C25: when an attempt fails with a transient error and execute_with_retry
\* goes on to another attempt, self.session is None after the failure; every
\* attempt after the first runs on a session get_session created for that
\* attempt, which is not the session of the attempt that failed before it.
C25_RetryOnNewSession ==
    /\ [][(conn'.outcome = "running" /\ conn'.fails = conn.fails + 1) =>
              (TransientText(conn'.err) /\ ~conn'.session)]_vars
    /\ [](conn.pc = "get_session" /\ conn.outcome = "running" => ~conn.session)
    /\ []((conn.pc = "statement" /\ conn.attempt >= 1) =>
              /\ conn.fresh
              /\ conn.used # conn.failed
              /\ conn.used = conn.created)

\* a statement failed on a session with a transient error, and the next
\* attempt is at its statement on another session
C25_RetriedAfterStatementFailure ==
    /\ conn.pc = "statement"
    /\ conn.attempt >= 1
    /\ conn.failed >= 1
    /\ conn.used > conn.failed

\* C26: a manager has at most one session open at any time; its first session
\* is created by the first operation, a later attempt reuses the cached session
\* when it is open and was last used less than connection_timeout ago, and a
\* session is created only when the manager's previous session is not open.
C26_AtMostOneLiveSession ==
    /\ [](Cardinality(live) <= 1)
    /\ [][conn'.created # conn.created => live = {}]_vars

----------------------------------------------------------------------------
(* Claims about what a session carries from one CID to the next, and about  *)
(* the AI conversation                                                      *)

\* the values of the data column in the rows of section s of a record
column_values(record, s) ==
    LET rows == dict_get(record.v, section_key(s), List(<<>>)).v
    IN  [i \in 1..Len(rows) |-> dict_get(rows[i].v, data_column(s), Null)]

\* C27: when a lookup switches the session from one CID to another, what the
\* run of the lookup saves under the new CID is what the store held for it
\* (nothing, for a new CID): the rows of the income, loans and executions
\* sections, the AI action plan and the conversation history.
C27_SwitchedCidSavedFromOwnRecord ==
    [][LET old == ui[1].current_cid
           cid == ui'[1].current_cid
           stored == ui'[1].existing_data
           saved == load_form_data(table', cid)
       IN  (shown'.button = "lookup" /\ old # <<>> /\ cid # old /\ table' # table) =>
               /\ \A s \in Sections : column_values(saved, s) = column_values(stored, s)
               /\ dict_get(saved.v, KeyPlan, Str(<<>>)) = dict_get(stored.v, KeyPlan, Str(<<>>))
               /\ dict_get(saved.v, KeyHistory, List(<<>>))
                      = dict_get(stored.v, KeyHistory, List(<<>>))]_vars

\* the messages of the session's conversation history
history(ss) == session_get(ss.ai_conversation_history, List(<<>>)).v

role(message) == dict_get(message.v, KeyRole, Null)

\* C30: a follow-up whose AI call fails leaves ai_conversation_history and
\* ai_action_plan as they were before the click; and in every state the
\* history is a user message followed by its assistant reply for each
\* follow-up, with no unanswered user message in it.
C30_FailedFollowUpLeavesHistory ==
    /\ [][(shown'.button = "follow_up" /\ shown'.message = "error") =>
              /\ history(session_state') = history(session_state)
              /\ session_state'.ai_action_plan = session_state.ai_action_plan]_vars
    /\ [](LET h == history(session_state)
          IN  /\ Len(h) % 2 = 0
              /\ \A i \in 1..Len(h) :
                     role(h[i]) = Str(IF i % 2 = 1 THEN RoleUser ELSE RoleAssistant))

----------------------------------------------------------------------------
(* Claims about the lookup, the form and the auto-save                      *)

\* C28: looking a CID up and rendering its form, with no field changed by the
\* user, writes nothing: no row is created, and DATA and LAST_UPDATED of the
\* rows that exist stay as they were.
C28_LookupAndRenderWriteNothing ==
    [][/\ Len(table') = Len(table)
       /\ \A i \in 1..Len(table) :
              /\ table'[i].data = table[i].data
              /\ table'[i].last_updated = table[i].last_updated]_vars

\* session w begins an auto-save in this step
AutoSaveBegins(w) ==
    /\ ws[w].pc \in {"idle", "lookup_done", "done"}
    /\ ws'[w].kind = "auto_save"
    /\ ws'[w].pc = "load"

\* session w runs the script without a lookup in this step
RunsWithoutLookup(w) ==
    /\ ws[w].pc \in {"idle", "done"}
    /\ ws'[w] # ws[w]
    /\ ws'[w].kind # "lookup"

\* C29: an auto-save is begun only for the CID of the latest lookup, with
\* cid_checked set; and a run whose trimmed CID field differs from
\* current_cid resets cid_checked, renders no form and begins no save.
C29_AutoSaveOnlyForLookedUpCid ==
    [][\A w \in Sessions :
           /\ AutoSaveBegins(w) =>
                  /\ ui'[w].cid_checked
                  /\ ws'[w].cid = ui'[w].current_cid
                  /\ strip(ws'[w].cid_in) = ui'[w].current_cid
           /\ (RunsWithoutLookup(w) /\ strip(ws'[w].cid_in) # ui[w].current_cid) =>
                  /\ ~ui'[w].cid_checked
                  /\ ws'[w].kind = "rerun"
                  /\ ws'[w].pc = "done"
                  /\ table' = table]_vars

\* after the lookup of one CID the field was changed to another: the run
\* found cid_checked set, reset it and saved nothing
C29_FieldChangedAfterLookup ==
    \E w \in Sessions :
        /\ ws[w].kind = "rerun"
        /\ ui[w].current_cid # <<>>
        /\ strip(ws[w].cid_in) # <<>>
        /\ strip(ws[w].cid_in) # ui[w].current_cid
        /\ ~ui[w].cid_checked

====
